---- MODULE Spec2Model ----
(***************************************************************************)
(* A model of the CODEOWNERS Status extension (class CodeownersExtension): *)
(* the rule-file loader, the line parser and the last-match-wins resolver. *)
(* Strings are sequences of one-character strings, so that trimming,       *)
(* splitting, pattern normalisation and glob matching are computed the way *)
(* the code computes them.                                                 *)
(***************************************************************************)
EXTENDS Naturals, Sequences, FiniteSets

VARIABLES
    rules,                  \* this.rules: Rule[]
    lastCodeownersModified, \* this.lastCodeownersModified
    config,                 \* this.config (allowMissingOwners, additionalCodeownersPaths)
    currentMatchedRule,     \* this.currentMatchedRule (NoRule for null)
    statusBarItem,          \* this.statusBarItem (text, command, visible)
    activated,              \* activate() has registered the listeners
    fs,                     \* the file system: one record per candidate rule file
    now,                    \* the wall clock read by Date.now()
    workspaceOpen,          \* vscode.workspace.workspaceFolders is non-empty and its root exists
    activeEditor,           \* vscode.window.activeTextEditor's document.fileName (<<>> for none)
    lastEvent,              \* history: the handler that ran last and how its load ended
    lastResolve,            \* history: the last findOwners call (its path and what it returned)
    lastParsed,             \* history: the file parsed last and its modification time then
    lastLoad,               \* history: whether the last loadCodeowners located a rule file, and
                            \* the complete parses of the last two versions it dealt with
    matchErrors,            \* the patterns on which the glob library raises an error
    navigation              \* openCodeownersFile(): where the invocation in flight is, its
                            \* targetRule and editor, and the selection it has made

vars == <<rules, lastCodeownersModified, config, currentMatchedRule, statusBarItem,
          activated, fs, now, workspaceOpen, activeEditor, lastEvent, lastResolve,
          lastParsed, lastLoad, matchErrors, navigation>>

-----------------------------------------------------------------------------
(* Bounds of the model *)

MaxTime == 2
MaxLines == 2

-----------------------------------------------------------------------------
(* Strings *)

\* what String.prototype.trim and the regular expression \s treat as white space
WhiteSpace == {" ", "\t", "\r", "\n", "\f"}

RECURSIVE TrimStart(_)
TrimStart(s) ==
    IF s # <<>> /\ Head(s) \in WhiteSpace THEN TrimStart(Tail(s)) ELSE s

RECURSIVE TrimEnd(_)
TrimEnd(s) ==
    IF s # <<>> /\ s[Len(s)] \in WhiteSpace THEN TrimEnd(SubSeq(s, 1, Len(s) - 1)) ELSE s

Trim(s) == TrimEnd(TrimStart(s))

StartsWith(s, prefix) ==
    /\ Len(prefix) <= Len(s)
    /\ SubSeq(s, 1, Len(prefix)) = prefix

EndsWith(s, suffix) ==
    /\ Len(suffix) <= Len(s)
    /\ SubSeq(s, Len(s) - Len(suffix) + 1, Len(s)) = suffix

Includes(s, sub) ==
    \E i \in 1..(Len(s) + 1) :
        /\ i + Len(sub) - 1 <= Len(s)
        /\ SubSeq(s, i, i + Len(sub) - 1) = sub

\* s.split(sep) for a one-character separator: empty pieces are kept
RECURSIVE SplitAcc(_, _, _, _)
SplitAcc(s, sep, cur, acc) ==
    IF s = <<>> THEN Append(acc, cur)
    ELSE IF Head(s) = sep THEN SplitAcc(Tail(s), sep, <<>>, Append(acc, cur))
    ELSE SplitAcc(Tail(s), sep, Append(cur, Head(s)), acc)

Split(s, sep) == SplitAcc(s, sep, <<>>, <<>>)

\* s.split(/X+/) for a set X of separator characters: a run of separators is
\* one separator; a leading or trailing run leaves an empty first or last piece
RECURSIVE SplitRunsAcc(_, _, _, _, _)
SplitRunsAcc(s, seps, cur, acc, inRun) ==
    IF s = <<>> THEN Append(acc, cur)
    ELSE IF Head(s) \in seps
         THEN IF inRun THEN SplitRunsAcc(Tail(s), seps, cur, acc, TRUE)
              ELSE SplitRunsAcc(Tail(s), seps, <<>>, Append(acc, cur), TRUE)
    ELSE SplitRunsAcc(Tail(s), seps, Append(cur, Head(s)), acc, FALSE)

SplitRuns(s, seps) == SplitRunsAcc(s, seps, <<>>, <<>>, FALSE)

\* parts.join(sep)
RECURSIVE Join(_, _)
Join(parts, sep) ==
    IF parts = <<>> THEN <<>>
    ELSE IF Len(parts) = 1 THEN parts[1]
    ELSE parts[1] \o sep \o Join(Tail(parts), sep)

LowerCaseLetters ==
    {"a", "b", "c", "d", "e", "f", "g", "h", "i", "j", "k", "l", "m",
     "n", "o", "p", "q", "r", "s", "t", "u", "v", "w", "x", "y", "z"}

UpperCaseLetters ==
    {"A", "B", "C", "D", "E", "F", "G", "H", "I", "J", "K", "L", "M",
     "N", "O", "P", "Q", "R", "S", "T", "U", "V", "W", "X", "Y", "Z"}

Digits == {"0", "1", "2", "3", "4", "5", "6", "7", "8", "9"}

\* String.prototype.toLowerCase on one character
ToLowerCase(c) ==
    CASE c = "A" -> "a" [] c = "B" -> "b" [] c = "C" -> "c" [] c = "D" -> "d"
      [] c = "E" -> "e" [] c = "F" -> "f" [] c = "G" -> "g" [] c = "H" -> "h"
      [] c = "I" -> "i" [] c = "J" -> "j" [] c = "K" -> "k" [] c = "L" -> "l"
      [] c = "M" -> "m" [] c = "N" -> "n" [] c = "O" -> "o" [] c = "P" -> "p"
      [] c = "Q" -> "q" [] c = "R" -> "r" [] c = "S" -> "s" [] c = "T" -> "t"
      [] c = "U" -> "u" [] c = "V" -> "v" [] c = "W" -> "w" [] c = "X" -> "x"
      [] c = "Y" -> "y" [] c = "Z" -> "z" [] OTHER -> c

-----------------------------------------------------------------------------
(* The parser *)

\* the character class of isValidPattern: [a-zA-Z0-9\/\*\?\.\-_]
PatternChars ==
    LowerCaseLetters \cup UpperCaseLetters \cup Digits \cup {"/", "*", "?", ".", "-", "_"}

\* isValidPattern changed to drop the test of the character class
isValidPatternNotEmpty(pattern) ==
    /\ pattern # <<>>
    /\ Len(Trim(pattern)) # 0

isValidPattern(pattern) ==
    /\ pattern # <<>>
    /\ Len(Trim(pattern)) # 0
    /\ \A i \in 1..Len(pattern) : pattern[i] \in PatternChars

\* isValidOwners changed to accept a list in which some token is an owner
isValidOwnersSomeToken(owners) ==
    /\ Len(owners) # 0
    /\ \E i \in 1..Len(owners) :
          /\ Len(Trim(owners[i])) > 0
          /\ Includes(owners[i], <<"@">>)

isValidOwners(owners) ==
    /\ Len(owners) # 0
    /\ \A i \in 1..Len(owners) :
          /\ Len(Trim(owners[i])) > 0
          /\ Includes(owners[i], <<"@">>)

Rule(pattern, owners, lineNumber, filePath) ==
    [pattern |-> pattern, owners |-> owners, lineNumber |-> lineNumber,
     filePath |-> filePath]

\* ParseLine changed to accept a line without owners whatever the policy
ParseLineIgnoresPolicy(acc, rawLine, lineNumber, codeownersFilePath, allowMissingOwners) ==
    LET line    == Trim(rawLine)
        tokens  == SplitRuns(line, WhiteSpace)
        pattern == Head(tokens)
        owners  == Tail(tokens)
    IN  IF line = <<>> \/ StartsWith(line, <<"#">>) THEN acc
        ELSE IF ~isValidPattern(pattern) THEN acc
        ELSE IF Len(owners) = 0
             THEN Append(acc, Rule(pattern, <<>>, lineNumber + 1, codeownersFilePath))
        ELSE IF ~isValidOwners(owners) THEN acc
        ELSE Append(acc, Rule(pattern, owners, lineNumber + 1, codeownersFilePath))

\* one iteration of the loop of parseCodeownersContent over lines[lineNumber]
\* (lineNumber is 0-based, as in the code): the rules after the iteration
ParseLine(acc, rawLine, lineNumber, codeownersFilePath, allowMissingOwners) ==
    LET line    == Trim(rawLine)
        tokens  == SplitRuns(line, WhiteSpace)
        pattern == Head(tokens)
        owners  == Tail(tokens)
    IN  IF line = <<>> \/ StartsWith(line, <<"#">>) THEN acc
        ELSE IF ~isValidPattern(pattern) THEN acc
        ELSE IF Len(owners) = 0
             THEN IF allowMissingOwners
                  THEN Append(acc, Rule(pattern, <<>>, lineNumber + 1, codeownersFilePath))
                  ELSE acc
        ELSE IF ~isValidOwners(owners) THEN acc
        ELSE Append(acc, Rule(pattern, owners, lineNumber + 1, codeownersFilePath))

\* ParseFrom changed to number a rule by its position among the rules
RECURSIVE ParseFromCountingRules(_, _, _, _, _)
ParseFromCountingRules(acc, lines, lineNumber, codeownersFilePath, allowMissingOwners) ==
    IF lineNumber >= Len(lines) THEN acc
    ELSE ParseFromCountingRules(ParseLine(acc, lines[lineNumber + 1], Len(acc),
                                          codeownersFilePath, allowMissingOwners),
                                lines, lineNumber + 1, codeownersFilePath,
                                allowMissingOwners)

\* ParseFrom changed to leave the loop at the first line it rejects
RECURSIVE ParseFromStopsAtRejected(_, _, _, _, _)
ParseFromStopsAtRejected(acc, lines, lineNumber, codeownersFilePath, allowMissingOwners) ==
    IF lineNumber >= Len(lines) THEN acc
    ELSE LET line == Trim(lines[lineNumber + 1])
             next == ParseLine(acc, lines[lineNumber + 1], lineNumber,
                               codeownersFilePath, allowMissingOwners)
         IN  IF next = acc /\ line # <<>> /\ ~StartsWith(line, <<"#">>) THEN acc
             ELSE ParseFromStopsAtRejected(next, lines, lineNumber + 1,
                                           codeownersFilePath, allowMissingOwners)

\* the loop of parseCodeownersContent over the lines, from lines[lineNumber] on
RECURSIVE ParseFrom(_, _, _, _, _)
ParseFrom(acc, lines, lineNumber, codeownersFilePath, allowMissingOwners) ==
    IF lineNumber >= Len(lines) THEN acc
    ELSE ParseFrom(ParseLine(acc, lines[lineNumber + 1], lineNumber,
                             codeownersFilePath, allowMissingOwners),
                   lines, lineNumber + 1, codeownersFilePath, allowMissingOwners)

\* parseCodeownersContent pushes onto this.rules (acc) one rule per accepted line
parseCodeownersContent(acc, content, codeownersFilePath, allowMissingOwners) ==
    ParseFrom(acc, Split(content, "\n"), 0, codeownersFilePath, allowMissingOwners)

\* the local counters of parseCodeownersContent
Counters(validRules, invalidLines) ==
    [validRules |-> validRules, invalidLines |-> invalidLines]

\* one iteration of the loop of parseCodeownersContent: the counters after it
CountLine(counters, rawLine, allowMissingOwners) ==
    LET line    == Trim(rawLine)
        tokens  == SplitRuns(line, WhiteSpace)
        pattern == Head(tokens)
        owners  == Tail(tokens)
        valid   == [counters EXCEPT !.validRules = @ + 1]
        invalid == [counters EXCEPT !.invalidLines = @ + 1]
    IN  IF line = <<>> \/ StartsWith(line, <<"#">>) THEN counters
        ELSE IF ~isValidPattern(pattern) THEN invalid
        ELSE IF Len(owners) = 0
             THEN IF allowMissingOwners THEN valid ELSE invalid
        ELSE IF ~isValidOwners(owners) THEN invalid
        ELSE valid

\* the counters after the lines from lines[lineNumber] on
RECURSIVE CountFrom(_, _, _, _)
CountFrom(counters, lines, lineNumber, allowMissingOwners) ==
    IF lineNumber >= Len(lines) THEN counters
    ELSE CountFrom(CountLine(counters, lines[lineNumber + 1], allowMissingOwners),
                   lines, lineNumber + 1, allowMissingOwners)

\* what parseCodeownersContent logs: "Loaded n valid rules", "Skipped m invalid lines"
parseCounters(content, allowMissingOwners) ==
    CountFrom(Counters(0, 0), Split(content, "\n"), 0, allowMissingOwners)

-----------------------------------------------------------------------------
(* The glob matcher: minimatch(path, pattern, { dot: true }) for the patterns *)
(* isValidPattern lets through (no braces, classes, negation or comments)   *)

DotDirs == {<<".">>, <<".", ".">>}

GLOBSTAR == <<"*", "*">>

HasMagic(part) == \E i \in 1..Len(part) : part[i] \in {"*", "?"}

\* the regular expression of one pattern part: '*' is [^/]*? and '?' is [^/]
RECURSIVE WildMatch(_, _)
WildMatch(s, p) ==
    IF p = <<>> THEN s = <<>>
    ELSE IF Head(p) = "*"
         THEN WildMatch(s, Tail(p)) \/ (s # <<>> /\ WildMatch(Tail(s), p))
    ELSE /\ s # <<>>
         /\ (Head(p) = "?" \/ Head(p) = Head(s))
         /\ WildMatch(Tail(s), Tail(p))

\* one path part against one pattern part that is not a globstar: a part
\* without magic is compared as a string; a part with magic is a regular
\* expression that matches no empty part and, when it starts with a wildcard,
\* neither "." nor ".."
PartMatch(f, p) ==
    IF ~HasMagic(p) THEN f = p
    ELSE /\ f # <<>>
         /\ (Head(p) \in {"*", "?"} => f \notin DotDirs)
         /\ WildMatch(f, p)

\* Minimatch.matchOne(file, pattern, partial = false)
RECURSIVE MatchOne(_, _)
MatchOne(file, pattern) ==
    IF file = <<>> \/ pattern = <<>>
    THEN IF file = <<>> /\ pattern = <<>> THEN TRUE
         ELSE IF file = <<>> THEN FALSE
         ELSE Len(file) = 1 /\ file[1] = <<>>
    ELSE IF Head(pattern) = GLOBSTAR
         THEN IF Len(pattern) = 1
              THEN \A i \in 1..Len(file) : file[i] \notin DotDirs
              ELSE \E fr \in 1..Len(file) :
                      /\ \A k \in 1..(fr - 1) : file[k] \notin DotDirs
                      /\ MatchOne(SubSeq(file, fr, Len(file)), Tail(pattern))
    ELSE /\ PartMatch(Head(file), Head(pattern))
         /\ MatchOne(Tail(file), Tail(pattern))

minimatch(p, pattern) ==
    IF pattern # <<>> /\ Head(pattern) = "#" THEN FALSE
    ELSE IF Trim(pattern) = <<>> THEN p = <<>>
    ELSE MatchOne(SplitRuns(p, {"/"}), SplitRuns(pattern, {"/"}))

\* path.relative(from, to) for absolute, normalised POSIX paths
RECURSIVE CommonPrefixLen(_, _)
CommonPrefixLen(a, b) ==
    IF a = <<>> \/ b = <<>> \/ Head(a) # Head(b) THEN 0
    ELSE 1 + CommonPrefixLen(Tail(a), Tail(b))

PathParts(p) == SelectSeq(Split(p, "/"), LAMBDA part : part # <<>>)

PathRelative(from, to) ==
    LET f == PathParts(from)
        t == PathParts(to)
        c == CommonPrefixLen(f, t)
    IN  Join([i \in 1..(Len(f) - c) |-> <<".", ".">>] \o SubSeq(t, c + 1, Len(t)),
             <<"/">>)

\* path.join(a, b) for normalised operands
PathJoin(a, b) == a \o <<"/">> \o b

-----------------------------------------------------------------------------
(* The resolver *)

NoRule == Rule(<<>>, <<>>, 0, <<>>)

\* the marker findOwners returns for a matched rule without owners
Anyone == <<"@", "a", "n", "y", "o", "n", "e">>

\* vscode.workspace.workspaceFolders[0].uri.fsPath
RootPath == <<"/", "w">>

\* normalizePattern changed to keep the leading '/'
normalizePatternKeepsSlash(pattern) ==
    IF pattern = <<>> THEN pattern
    ELSE LET p0 == Trim(pattern)
         IN  IF EndsWith(p0, <<"/">>) THEN p0 \o <<"*", "*">> ELSE p0

\* normalizePattern changed to leave a trailing '/' as it is
normalizePatternKeepsDirectory(pattern) ==
    IF pattern = <<>> THEN pattern
    ELSE LET p0 == Trim(pattern)
         IN  IF StartsWith(p0, <<"/">>) THEN Tail(p0) ELSE p0

\* normalizePattern(pattern): an empty pattern throws and is returned as it is
normalizePattern(pattern) ==
    IF pattern = <<>> THEN pattern
    ELSE LET p0 == Trim(pattern)
             p1 == IF StartsWith(p0, <<"/">>) THEN Tail(p0) ELSE p0
         IN  IF EndsWith(p1, <<"/">>) THEN p1 \o <<"*", "*">> ELSE p1

\* ScanRules changed to catch an error of the glob library outside the loop:
\* the first rule that raises ends the scan
RECURSIVE ScanRulesAbortsOnError(_, _, _, _)
ScanRulesAbortsOnError(ruleSeq, i, relative, acc) ==
    IF i > Len(ruleSeq) THEN acc
    ELSE LET rule == ruleSeq[i]
             normalizedPattern == normalizePattern(rule.pattern)
         IN  IF normalizedPattern \in matchErrors THEN acc
             ELSE ScanRulesAbortsOnError(ruleSeq, i + 1, relative,
                       IF minimatch(relative, normalizedPattern)
                       THEN [matchedOwners |-> rule.owners, hasMatchedPattern |-> TRUE,
                             currentMatchedRule |-> rule]
                       ELSE acc)

\* the loop of findOwners over this.rules, from rule i on
RECURSIVE ScanRules(_, _, _, _)
ScanRules(ruleSeq, i, relative, acc) ==
    IF i > Len(ruleSeq) THEN acc
    ELSE LET rule == ruleSeq[i]
             normalizedPattern == normalizePattern(rule.pattern)
             \* an error of the glob library is caught and logged: no match
             isMatch == IF normalizedPattern \in matchErrors THEN FALSE
                        ELSE minimatch(relative, normalizedPattern)
         IN  ScanRules(ruleSeq, i + 1, relative,
                       IF isMatch
                       THEN [matchedOwners |-> rule.owners, hasMatchedPattern |-> TRUE,
                             currentMatchedRule |-> rule]
                       ELSE acc)

\* findOwners changed to pass over the rule it matched the time before
findOwnersSkipsMatchedBefore(ruleSeq, matchedBefore, folderOpen, filePath) ==
    IF Len(ruleSeq) = 0 THEN [owners |-> <<>>, currentMatchedRule |-> matchedBefore]
    ELSE IF filePath = <<>> THEN [owners |-> <<>>, currentMatchedRule |-> matchedBefore]
    ELSE IF ~folderOpen THEN [owners |-> <<>>, currentMatchedRule |-> matchedBefore]
    ELSE LET relative == PathRelative(RootPath, filePath) IN
         IF relative = <<>> \/ StartsWith(relative, <<".", ".">>)
         THEN [owners |-> <<>>, currentMatchedRule |-> matchedBefore]
         ELSE LET scan == ScanRules(SelectSeq(ruleSeq, LAMBDA rule : rule # matchedBefore),
                                    1, relative,
                                    [matchedOwners |-> <<>>, hasMatchedPattern |-> FALSE,
                                     currentMatchedRule |-> NoRule])
              IN  IF scan.hasMatchedPattern /\ Len(scan.matchedOwners) = 0
                  THEN [owners |-> <<Anyone>>,
                        currentMatchedRule |-> scan.currentMatchedRule]
                  ELSE [owners |-> scan.matchedOwners,
                        currentMatchedRule |-> scan.currentMatchedRule]

\* findOwners changed to scan the rules whatever the relative path is
findOwnersScansOutside(ruleSeq, matchedBefore, folderOpen, filePath) ==
    IF Len(ruleSeq) = 0 THEN [owners |-> <<>>, currentMatchedRule |-> matchedBefore]
    ELSE IF filePath = <<>> THEN [owners |-> <<>>, currentMatchedRule |-> matchedBefore]
    ELSE IF ~folderOpen THEN [owners |-> <<>>, currentMatchedRule |-> matchedBefore]
    ELSE LET relative == PathRelative(RootPath, filePath)
             scan == ScanRules(ruleSeq, 1, relative,
                               [matchedOwners |-> <<>>, hasMatchedPattern |-> FALSE,
                                currentMatchedRule |-> NoRule])
         IN  IF scan.hasMatchedPattern /\ Len(scan.matchedOwners) = 0
             THEN [owners |-> <<Anyone>>, currentMatchedRule |-> scan.currentMatchedRule]
             ELSE [owners |-> scan.matchedOwners,
                   currentMatchedRule |-> scan.currentMatchedRule]

\* findOwners(filePath): what it returns and what it leaves in currentMatchedRule
findOwners(ruleSeq, matchedBefore, folderOpen, filePath) ==
    IF Len(ruleSeq) = 0 THEN [owners |-> <<>>, currentMatchedRule |-> matchedBefore]
    ELSE IF filePath = <<>> THEN [owners |-> <<>>, currentMatchedRule |-> matchedBefore]
    ELSE IF ~folderOpen THEN [owners |-> <<>>, currentMatchedRule |-> matchedBefore]
    ELSE LET relative == PathRelative(RootPath, filePath) IN
         IF relative = <<>> \/ StartsWith(relative, <<".", ".">>)
         THEN [owners |-> <<>>, currentMatchedRule |-> matchedBefore]
         ELSE LET scan == ScanRules(ruleSeq, 1, relative,
                                    [matchedOwners |-> <<>>, hasMatchedPattern |-> FALSE,
                                     currentMatchedRule |-> NoRule])
              IN  IF scan.hasMatchedPattern /\ Len(scan.matchedOwners) = 0
                  THEN [owners |-> <<Anyone>>,
                        currentMatchedRule |-> scan.currentMatchedRule]
                  ELSE [owners |-> scan.matchedOwners,
                        currentMatchedRule |-> scan.currentMatchedRule]

OpenCommand == "codeowners.openCodeownersFile"
NoCommand == "undefined"

StatusBar(text, list, command, visible) ==
    [text |-> text, list |-> list, command |-> command, visible |-> visible]

\* updateStatusBar(): the status bar item after it, given what findOwners returned
updateStatusBar(item, editorFile, found) ==
    IF editorFile = <<>> THEN [item EXCEPT !.visible = FALSE]
    ELSE IF Len(found.owners) > 0
         THEN IF found.owners[1] = Anyone
              THEN StatusBar("No owners", <<>>, OpenCommand, TRUE)
              ELSE StatusBar("Owners: ", Join(found.owners, <<",", " ">>), OpenCommand, TRUE)
    ELSE StatusBar("No owners found", <<>>, NoCommand, TRUE)

-----------------------------------------------------------------------------
(* The loader *)

CODEOWNERS == <<"C", "O", "D", "E", "O", "W", "N", "E", "R", "S">>

RootCodeowners == PathJoin(RootPath, CODEOWNERS)
GithubCodeowners == PathJoin(PathJoin(RootPath, <<".", "g", "i", "t", "h", "u", "b">>), CODEOWNERS)

\* readCodeownersFile's guard: 10 * 1024 * 1024 characters
maxSize == 10 * 1024 * 1024

\* A file: what kind of directory entry it is, its modification time, its
\* text, and a count of space characters that follow the text (white space
\* at the end of the last line, which the parser trims away)
File(kind, mtime, content, trailing) ==
    [kind |-> kind, mtime |-> mtime, content |-> content, trailing |-> trailing]

FileLength(file) == Len(file.content) + file.trailing

\* isValidCodeownersFile changed to test existence alone
isValidCodeownersFileExistsOnly(disk, filePath) ==
    /\ filePath \in DOMAIN disk
    /\ disk[filePath].kind # "absent"

\* isValidCodeownersFile: exists, is a regular file, and is readable
isValidCodeownersFile(disk, filePath) ==
    /\ filePath \in DOMAIN disk
    /\ disk[filePath].kind # "absent"
    /\ disk[filePath].kind # "directory"
    /\ disk[filePath].kind # "unreadable"

possiblePaths(cfg) ==
    <<RootCodeowners, GithubCodeowners>>
        \o [i \in 1..Len(cfg.additionalCodeownersPaths) |->
                PathJoin(RootPath, cfg.additionalCodeownersPaths[i])]

\* the loop of findCodeownersFile over possiblePaths, from index i on
RECURSIVE FirstValid(_, _, _)
FirstValid(disk, paths, i) ==
    IF i > Len(paths) THEN <<>>
    ELSE IF isValidCodeownersFile(disk, paths[i]) THEN paths[i]
    ELSE FirstValid(disk, paths, i + 1)

\* findCodeownersFile(rootPath): <<>> stands for null
findCodeownersFile(disk, cfg) == FirstValid(disk, possiblePaths(cfg), 1)

\* fs.statSync(filePath) throws: nothing is there under that name
StatFails(disk, filePath) ==
    \/ filePath \notin DOMAIN disk
    \/ disk[filePath].kind = "absent"

\* shouldReloadCodeowners changed to skip the reload when statSync throws
shouldReloadCodeownersFailsClosed(disk, filePath, lastModified) ==
    IF StatFails(disk, filePath) THEN FALSE
    ELSE disk[filePath].mtime > lastModified

\* shouldReloadCodeowners: the catch of a failed statSync returns true
shouldReloadCodeowners(disk, filePath, lastModified) ==
    IF StatFails(disk, filePath) THEN TRUE
    ELSE disk[filePath].mtime > lastModified

\* readCodeownersFile changed to reject a file of maxSize characters too
readCodeownersFileRejectsAtLimit(disk, filePath) ==
    IF StatFails(disk, filePath) \/ disk[filePath].kind # "file" THEN "error"
    ELSE IF FileLength(disk[filePath]) = 0 THEN "empty"
    ELSE IF FileLength(disk[filePath]) >= maxSize THEN "error"
    ELSE "content"

\* readCodeownersFile: "empty" and "error" both return null; readFileSync
\* throws, into the catch, on what is no readable regular file
readCodeownersFile(disk, filePath) ==
    IF StatFails(disk, filePath) \/ disk[filePath].kind # "file" THEN "error"
    ELSE IF FileLength(disk[filePath]) = 0 THEN "empty"
    ELSE IF FileLength(disk[filePath]) > maxSize THEN "error"
    ELSE "content"

Loaded(ruleSeq, lastModified, outcome, file) ==
    [rules |-> ruleSeq, lastCodeownersModified |-> lastModified,
     outcome |-> outcome, file |-> file]

\* loadCodeowners changed to empty this.rules only right before it parses
loadCodeownersClearsBeforeParse(ruleSeq, disk, cfg, folderOpen, lastModified, clock) ==
    LET cleared == SubSeq(ruleSeq, 1, 0)
        codeownersPath == findCodeownersFile(disk, cfg)
    IN  IF ~folderOpen THEN Loaded(ruleSeq, lastModified, "invalid", <<>>)
        ELSE IF codeownersPath = <<>>
             THEN Loaded(ruleSeq, lastModified, "nofile", <<>>)
        ELSE IF ~shouldReloadCodeowners(disk, codeownersPath, lastModified)
             THEN Loaded(ruleSeq, lastModified, "skipped", codeownersPath)
        ELSE IF readCodeownersFile(disk, codeownersPath) # "content"
             THEN Loaded(ruleSeq, lastModified,
                         readCodeownersFile(disk, codeownersPath), codeownersPath)
        ELSE Loaded(parseCodeownersContent(cleared, disk[codeownersPath].content,
                                           codeownersPath, cfg.allowMissingOwners),
                    clock, "parsed", codeownersPath)

\* loadCodeowners changed to drop "this.rules = []": the parse pushes onto
\* the rules of the load before
loadCodeownersKeepsRules(ruleSeq, disk, cfg, folderOpen, lastModified, clock) ==
    LET codeownersPath == findCodeownersFile(disk, cfg)
    IN  IF ~folderOpen THEN Loaded(ruleSeq, lastModified, "invalid", <<>>)
        ELSE IF codeownersPath = <<>>
             THEN Loaded(ruleSeq, lastModified, "nofile", <<>>)
        ELSE IF ~shouldReloadCodeowners(disk, codeownersPath, lastModified)
             THEN Loaded(ruleSeq, lastModified, "skipped", codeownersPath)
        ELSE IF readCodeownersFile(disk, codeownersPath) # "content"
             THEN Loaded(ruleSeq, lastModified,
                         readCodeownersFile(disk, codeownersPath), codeownersPath)
        ELSE Loaded(parseCodeownersContent(ruleSeq, disk[codeownersPath].content,
                                           codeownersPath, cfg.allowMissingOwners),
                    clock, "parsed", codeownersPath)

\* loadCodeowners changed to record the time also when the file read is empty
loadCodeownersStampsEmpty(ruleSeq, disk, cfg, folderOpen, lastModified, clock) ==
    LET cleared == SubSeq(ruleSeq, 1, 0)
        codeownersPath == findCodeownersFile(disk, cfg)
    IN  IF ~folderOpen THEN Loaded(cleared, lastModified, "invalid", <<>>)
        ELSE IF codeownersPath = <<>>
             THEN Loaded(cleared, lastModified, "nofile", <<>>)
        ELSE IF ~shouldReloadCodeowners(disk, codeownersPath, lastModified)
             THEN Loaded(cleared, lastModified, "skipped", codeownersPath)
        ELSE IF readCodeownersFile(disk, codeownersPath) = "empty"
             THEN Loaded(cleared, clock, "empty", codeownersPath)
        ELSE IF readCodeownersFile(disk, codeownersPath) # "content"
             THEN Loaded(cleared, lastModified,
                         readCodeownersFile(disk, codeownersPath), codeownersPath)
        ELSE Loaded(parseCodeownersContent(cleared, disk[codeownersPath].content,
                                           codeownersPath, cfg.allowMissingOwners),
                    clock, "parsed", codeownersPath)

\* loadCodeowners(): this.rules and this.lastCodeownersModified after it, how
\* it ended and the file findCodeownersFile returned
loadCodeowners(ruleSeq, disk, cfg, folderOpen, lastModified, clock) ==
    LET cleared == SubSeq(ruleSeq, 1, 0)    \* this.rules = []
        codeownersPath == findCodeownersFile(disk, cfg)
    IN  IF ~folderOpen THEN Loaded(cleared, lastModified, "invalid", <<>>)
        ELSE IF codeownersPath = <<>>
             THEN Loaded(cleared, lastModified, "nofile", <<>>)
        ELSE IF ~shouldReloadCodeowners(disk, codeownersPath, lastModified)
             THEN Loaded(cleared, lastModified, "skipped", codeownersPath)
        ELSE IF readCodeownersFile(disk, codeownersPath) # "content"
             THEN Loaded(cleared, lastModified,
                         readCodeownersFile(disk, codeownersPath), codeownersPath)
        ELSE Loaded(parseCodeownersContent(cleared, disk[codeownersPath].content,
                                           codeownersPath, cfg.allowMissingOwners),
                    clock, "parsed", codeownersPath)

\* loadCodeowners() while another program changes the files: found is the
\* disk when findCodeownersFile looks at it, checked the disk at the statSync
\* of shouldReloadCodeowners, read the disk at the readFileSync
loadCodeownersAcross(ruleSeq, found, checked, read, cfg, folderOpen, lastModified, clock) ==
    LET cleared == SubSeq(ruleSeq, 1, 0)    \* this.rules = []
        codeownersPath == findCodeownersFile(found, cfg)
    IN  IF ~folderOpen THEN Loaded(cleared, lastModified, "invalid", <<>>)
        ELSE IF codeownersPath = <<>>
             THEN Loaded(cleared, lastModified, "nofile", <<>>)
        ELSE IF ~shouldReloadCodeowners(checked, codeownersPath, lastModified)
             THEN Loaded(cleared, lastModified, "skipped", codeownersPath)
        ELSE IF readCodeownersFile(read, codeownersPath) # "content"
             THEN Loaded(cleared, lastModified,
                         readCodeownersFile(read, codeownersPath), codeownersPath)
        ELSE Loaded(parseCodeownersContent(cleared, read[codeownersPath].content,
                                           codeownersPath, cfg.allowMissingOwners),
                    clock, "parsed", codeownersPath)

isCodeownersFile(fileName) ==
    /\ fileName # <<>>
    /\ Includes([i \in 1..Len(fileName) |-> ToLowerCase(fileName[i])],
                <<"c", "o", "d", "e", "o", "w", "n", "e", "r", "s">>)

-----------------------------------------------------------------------------
(* The inputs the model draws from *)

DocsCodeownersPath == <<"d", "/">> \o CODEOWNERS
DocsCodeowners == PathJoin(RootPath, DocsCodeownersPath)

OtherCodeownersPath == <<"o">>
OtherCodeowners == PathJoin(RootPath, OtherCodeownersPath)

RuleFiles == {RootCodeowners, GithubCodeowners, DocsCodeowners}

\* files an editor can show: two inside the workspace, one outside it
FileInA == <<"/", "w", "/", "a", "/", "x">>
FileAtTop == <<"/", "w", "/", "x">>
FileOutside == <<"/", "y">>
\* a file inside the workspace, in a directory whose name starts with two dots
FileDotted == <<"/", "w", "/", ".", ".", "c", "/", "x">>

\* the workspace root itself: its relative path is empty
FileRoot == RootPath

Editors == {FileInA, FileAtTop, FileOutside, FileDotted, FileRoot}

\* lines of a rule file
LineStar == <<"*", " ", "@", "g">>
LineDirOwned == <<"/", "a", "/", " ", "@", "f", " ", "@", "g">>
LineDirBare == <<"/", "a", "/">>
LineDeep == <<"a", "/", "*", "*", "\t", "@", "h">>
LineComment == <<"#", " ", "a">>
LineBlank == <<" ">>
LineBadOwner == <<"*", " ", "g">>
LineMixedOwners == <<"*", " ", "@", "g", " ", "h">>
LineBadPattern == <<"a", "!", " ", "@", "g">>
LineBadBare == <<"a", "!">>
LineAnyone == <<"*", " ">> \o Anyone
LineAll == <<"*", "*", " ", "@", "k">>
LineAllBare == <<"*", "*">>
\* a pattern that spells out the way to the files next to the workspace
LineParent == <<".", ".", "/", "*", " ", "@", "p">>

Lines == {LineStar, LineDirOwned, LineDirBare, LineDeep, LineComment, LineBlank,
          LineBadOwner, LineMixedOwners, LineBadPattern, LineAnyone, LineAll,
          LineAllBare, LineParent, LineBadBare}

\* every text of at most n of these lines
RECURSIVE TextsUpTo(_)
TextsUpTo(n) ==
    IF n = 0 THEN {<<>>}
    ELSE LET shorter == TextsUpTo(n - 1)
         IN  shorter \cup Lines
                     \cup {t \o <<"\n">> \o l : t \in (shorter \ {<<>>}), l \in Lines}

\* the texts the rule file goes through in the life-cycle specification
TextGlobal == LineStar \o <<"\n">> \o LineDirOwned
TextBare == LineDirBare \o <<"\n">> \o LineComment
LifeTexts == {<<>>, TextGlobal, TextBare}

Config(allowMissingOwners, additionalCodeownersPaths) ==
    [allowMissingOwners |-> allowMissingOwners,
     additionalCodeownersPaths |-> additionalCodeownersPaths]

Configs == {Config(a, p) : a \in BOOLEAN, p \in {<<>>, <<DocsCodeownersPath>>}}

Absent == File("absent", 0, <<>>, 0)

Event(kind, load, file) == [kind |-> kind, load |-> load, file |-> file]

NoResolve == [called |-> FALSE, path |-> <<>>, owners |-> <<>>]

NeverParsed == [file |-> <<>>, mtime |-> 0]

NeverLoaded == [located |-> TRUE, previous |-> <<>>, latest |-> <<>>]

\* no invocation of openCodeownersFile in flight, and no selection made yet
NoSelection == [file |-> <<>>, line |-> 0]
NoNavigation == [pc |-> "idle", invoked |-> NoRule, targetRule |-> NoRule, editor |-> <<>>,
                 selection |-> NoSelection]

-----------------------------------------------------------------------------
(* The handlers *)

\* the part of a handler that is loadCodeowners(), run on the disk as it is
\* when the handler runs and under the configuration cfg
Load(kind, disk, cfg) ==
    \E r \in {loadCodeowners(rules, disk, cfg, workspaceOpen, lastCodeownersModified, now)} :
        /\ rules' = r.rules
        /\ lastCodeownersModified' = r.lastCodeownersModified
        /\ lastEvent' = Event(kind, r.outcome, r.file)
        /\ lastParsed' = IF r.outcome = "parsed"
                         THEN [file |-> r.file, mtime |-> disk[r.file].mtime]
                         ELSE lastParsed
        \* a version of the rule file is dealt with when it is parsed, when it
        \* is empty and when there is no rule file (its complete parse is then
        \* the empty rule set); a skipped or failed load deals with none
        /\ lastLoad' = IF r.outcome \in {"parsed", "empty", "nofile", "invalid"}
                       THEN [located |-> r.file # <<>>, previous |-> lastLoad.latest,
                             latest |-> IF r.outcome = "parsed" THEN r.rules ELSE <<>>]
                       ELSE [lastLoad EXCEPT !.located = TRUE]

\* this.rules after findOwners, changed to keep the normalised pattern on
\* each rule
rulesAfterFindOwnersNormalised(ruleSeq) ==
    [i \in 1..Len(ruleSeq) |->
        [ruleSeq[i] EXCEPT !.pattern = normalizePattern(ruleSeq[i].pattern)]]

\* this.rules after findOwners: the loop reads rule.pattern into the const
\* normalizedPattern and assigns to no rule and not to this.rules
rulesAfterFindOwners(ruleSeq) == ruleSeq

\* the part of a handler that is updateStatusBar(), run on the rules ruleSeq
\* with the editor showing editorFile
Refresh(ruleSeq, editorFile) ==
    \E found \in {findOwners(ruleSeq, currentMatchedRule, workspaceOpen, editorFile)} :
        /\ statusBarItem' = updateStatusBar(statusBarItem, editorFile, found)
        /\ currentMatchedRule' =
              IF editorFile = <<>> THEN currentMatchedRule ELSE found.currentMatchedRule
        /\ lastResolve' =
              IF editorFile = <<>> THEN lastResolve
              ELSE [called |-> TRUE, path |-> editorFile, owners |-> found.owners]

\* activate(context): validate the workspace, load, register the listeners,
\* update the status bar
Activate ==
    /\ UNCHANGED <<matchErrors, navigation>>
    /\ ~activated
    /\ workspaceOpen
    /\ activated' = TRUE
    /\ Load("activate", fs, config)
    /\ Refresh(rules', activeEditor)
    /\ UNCHANGED <<config, fs, now, workspaceOpen, activeEditor>>

\* the handler that ran last called findOwners(filePath), so that a call now
\* is the second in a row with the same rules and the same path
ResolvedJustBefore(filePath) ==
    /\ lastEvent.kind \in {"activate", "editor", "editor again"}
    /\ lastResolve.called
    /\ lastResolve.path = filePath
    /\ filePath = activeEditor

\* onDidChangeActiveTextEditor: updateStatusBar()
OnDidChangeActiveTextEditor(editorFile) ==
    /\ UNCHANGED <<matchErrors, navigation>>
    /\ activated
    /\ activeEditor' = editorFile
    /\ Refresh(rules, editorFile)
    /\ rules' = IF editorFile = <<>> THEN rules ELSE rulesAfterFindOwners(rules)
    /\ lastEvent' = Event(IF ResolvedJustBefore(editorFile) THEN "editor again" ELSE "editor",
                          "none", <<>>)
    /\ UNCHANGED <<lastCodeownersModified, config, activated, fs, now,
                   workspaceOpen, lastParsed, lastLoad>>

\* the editor writes the document to disk (a rule file gets the text and the
\* current time as its modification time), then onDidSaveTextDocument runs:
\* loadCodeowners() when the file name contains "codeowners"
OnDidSaveTextDocument(fileName, text) ==
    /\ UNCHANGED <<matchErrors, navigation>>
    /\ activated
    /\ fs' = IF fileName \in DOMAIN fs
             THEN [fs EXCEPT ![fileName] = File("file", now, text, 0)]
             ELSE fs
    /\ IF isCodeownersFile(fileName)
       THEN Load("save", fs', config)
       ELSE /\ lastEvent' = Event("save", "none", <<>>)
            /\ UNCHANGED <<rules, lastCodeownersModified, lastParsed, lastLoad>>
    /\ UNCHANGED <<config, currentMatchedRule, statusBarItem, activated, now,
                   workspaceOpen, activeEditor, lastResolve>>

\* onDidChangeConfiguration for a change that affects 'codeowners':
\* this.config = loadConfig(), then loadCodeowners()
OnDidChangeConfiguration(cfg) ==
    /\ UNCHANGED <<matchErrors, navigation>>
    /\ activated
    /\ cfg # config
    /\ config' = cfg
    /\ Load("config", fs, cfg)
    /\ UNCHANGED <<currentMatchedRule, statusBarItem, activated, fs, now,
                   workspaceOpen, activeEditor, lastResolve>>

\* onDidChangeConfiguration while another program replaces the rule file:
\* the file is as on fs when findCodeownersFile validates it, atGuard at the
\* statSync of shouldReloadCodeowners and atRead from the read on
OnDidChangeConfigurationAcross(cfg, atGuard, atRead) ==
    /\ UNCHANGED <<matchErrors, navigation>>
    /\ activated
    /\ cfg # config
    /\ config' = cfg
    /\ fs' = [fs EXCEPT ![RootCodeowners] = atRead]
    /\ \E r \in {loadCodeownersAcross(rules, fs, [fs EXCEPT ![RootCodeowners] = atGuard],
                                      fs', cfg, workspaceOpen,
                                      lastCodeownersModified, now)} :
          /\ rules' = r.rules
          /\ lastCodeownersModified' = r.lastCodeownersModified
          /\ lastEvent' = Event("config", r.outcome, r.file)
          /\ lastParsed' = IF r.outcome = "parsed"
                           THEN [file |-> r.file, mtime |-> fs'[r.file].mtime]
                           ELSE lastParsed
          /\ lastLoad' = IF r.outcome \in {"parsed", "empty", "nofile", "invalid"}
                         THEN [located |-> r.file # <<>>, previous |-> lastLoad.latest,
                               latest |-> IF r.outcome = "parsed" THEN r.rules ELSE <<>>]
                         ELSE [lastLoad EXCEPT !.located = TRUE]
    /\ UNCHANGED <<currentMatchedRule, statusBarItem, activated, now,
                   workspaceOpen, activeEditor, lastResolve>>

-----------------------------------------------------------------------------
(* The environment *)

Tick ==
    /\ UNCHANGED <<matchErrors, navigation>>
    /\ now < MaxTime
    /\ now' = now + 1
    /\ lastEvent' = Event("tick", "none", <<>>)
    /\ UNCHANGED <<rules, lastCodeownersModified, config, currentMatchedRule,
                   statusBarItem, activated, fs, workspaceOpen, activeEditor,
                   lastResolve, lastParsed, lastLoad>>

\* another program writes, replaces or removes a rule file
WriteFile(fileName, file) ==
    /\ UNCHANGED <<matchErrors, navigation>>
    /\ fs' = [fs EXCEPT ![fileName] = file]
    /\ fs' # fs
    /\ lastEvent' = Event("write", "none", <<>>)
    /\ UNCHANGED <<rules, lastCodeownersModified, config, currentMatchedRule,
                   statusBarItem, activated, now, workspaceOpen, activeEditor,
                   lastResolve, lastParsed, lastLoad>>

\* another program removes the root folder and all that is in it:
\* validateWorkspace() is false from then on
RemoveRoot ==
    /\ workspaceOpen
    /\ workspaceOpen' = FALSE
    /\ fs' = [f \in DOMAIN fs |-> Absent]
    /\ lastEvent' = Event("root removed", "none", <<>>)
    /\ UNCHANGED <<rules, lastCodeownersModified, config, currentMatchedRule,
                   statusBarItem, activated, now, activeEditor, lastResolve,
                   lastParsed, lastLoad, matchErrors, navigation>>

\* another program creates the root folder again, empty
RestoreRoot ==
    /\ ~workspaceOpen
    /\ workspaceOpen' = TRUE
    /\ lastEvent' = Event("root restored", "none", <<>>)
    /\ UNCHANGED <<rules, lastCodeownersModified, config, currentMatchedRule,
                   statusBarItem, activated, fs, now, activeEditor, lastResolve,
                   lastParsed, lastLoad, matchErrors, navigation>>

-----------------------------------------------------------------------------
(* The command codeowners.openCodeownersFile. openCodeownersFile() is async: *)
(* it runs to its first await, goes on when the document is open, goes on   *)
(* again when the editor shows it, and its timer callback runs later; other *)
(* handlers run in between. One invocation is in flight at a time.          *)

\* the rule the timer callback reads, changed to read this.currentMatchedRule
\* when the callback runs
NavigationTargetAtCallback(targetRule, matchedNow) == matchedNow

\* the rule the timer callback reads: the const targetRule of its closure
NavigationTarget(targetRule, matchedNow) == targetRule

\* openCodeownersFile() up to "await vscode.workspace.openTextDocument(filePath)"
OpenCodeownersFile ==
    /\ activated
    /\ navigation.pc = "idle"
    /\ currentMatchedRule # NoRule
    /\ currentMatchedRule.filePath # <<>>
    /\ navigation' = [navigation EXCEPT !.pc = "opening",
                                        !.invoked = currentMatchedRule,
                                        !.targetRule = currentMatchedRule,
                                        !.editor = <<>>]
    /\ lastEvent' = Event("command", "none", <<>>)
    /\ UNCHANGED <<rules, lastCodeownersModified, config, currentMatchedRule,
                   statusBarItem, activated, fs, now, workspaceOpen, activeEditor,
                   lastResolve, lastParsed, lastLoad, matchErrors>>

\* openTextDocument settles: with the document, or with an error that the
\* catch of openCodeownersFile reports when the file is gone
OpenTextDocument ==
    /\ navigation.pc = "opening"
    /\ navigation' =
          [navigation EXCEPT !.pc = IF isValidCodeownersFile(fs, navigation.targetRule.filePath)
                                    THEN "showing" ELSE "idle"]
    /\ lastEvent' = Event("document", "none", <<>>)
    /\ UNCHANGED <<rules, lastCodeownersModified, config, currentMatchedRule,
                   statusBarItem, activated, fs, now, workspaceOpen, activeEditor,
                   lastResolve, lastParsed, lastLoad, matchErrors>>

\* showTextDocument settles: the rule file is the active editor (which fires
\* onDidChangeActiveTextEditor when it was not), and the timer is set
ShowTextDocument ==
    /\ navigation.pc = "showing"
    /\ navigation' = [navigation EXCEPT !.pc = "waiting",
                                        !.editor = navigation.targetRule.filePath]
    /\ activeEditor' = navigation.targetRule.filePath
    /\ IF activeEditor # navigation.targetRule.filePath
       THEN /\ Refresh(rules, navigation.targetRule.filePath)
            /\ rules' = rulesAfterFindOwners(rules)
       ELSE UNCHANGED <<statusBarItem, currentMatchedRule, lastResolve, rules>>
    /\ lastEvent' = Event("shown", "none", <<>>)
    /\ UNCHANGED <<lastCodeownersModified, config, activated, fs, now,
                   workspaceOpen, lastParsed, lastLoad, matchErrors>>

\* the callback of setTimeout(..., 100): editor.selection is the start of
\* line targetRule.lineNumber - 1 (a null rule makes the callback throw)
NavigationTimer ==
    /\ navigation.pc = "waiting"
    /\ \E rule \in {NavigationTarget(navigation.targetRule, currentMatchedRule)} :
          navigation' =
              [navigation EXCEPT
                  !.pc = "idle",
                  !.selection = IF rule = NoRule THEN navigation.selection
                                ELSE [file |-> navigation.editor,
                                      line |-> rule.lineNumber - 1]]
    /\ lastEvent' = Event("timer", "none", <<>>)
    /\ UNCHANGED <<rules, lastCodeownersModified, config, currentMatchedRule,
                   statusBarItem, activated, fs, now, workspaceOpen, activeEditor,
                   lastResolve, lastParsed, lastLoad, matchErrors>>

-----------------------------------------------------------------------------
(* The life cycle of the extension *)

Init ==
    /\ rules = <<>>
    /\ lastCodeownersModified = 0
    /\ config \in Configs
    /\ currentMatchedRule = NoRule
    /\ statusBarItem = StatusBar("", <<>>, NoCommand, FALSE)
    /\ activated = FALSE
    /\ now = 1
    /\ workspaceOpen = TRUE
    /\ activeEditor \in {<<>>, FileInA}
    /\ \E t \in LifeTexts :
          fs = [f \in RuleFiles |->
                  IF f = RootCodeowners THEN File("file", 1, t, 0)
                  ELSE IF f = DocsCodeowners THEN File("file", 1, LineDeep, 0)
                  ELSE Absent]
    /\ lastEvent = Event("init", "none", <<>>)
    /\ lastResolve = NoResolve
    /\ lastParsed = NeverParsed
    /\ lastLoad = NeverLoaded
    /\ matchErrors = {}
    /\ navigation = NoNavigation

Next ==
    \/ Activate
    \/ \E e \in {FileInA, FileOutside, <<>>} : OnDidChangeActiveTextEditor(e)
    \/ \E t \in LifeTexts : OnDidSaveTextDocument(RootCodeowners, t)
    \/ OnDidSaveTextDocument(FileInA, <<>>)
    \/ \E cfg \in Configs : OnDidChangeConfiguration(cfg)
    \/ Tick
    \/ \E t \in LifeTexts : WriteFile(RootCodeowners, File("file", now, t, 0))
    \/ WriteFile(RootCodeowners, File("file", now, TextGlobal, maxSize))
    \/ WriteFile(RootCodeowners, Absent)

Spec == Init /\ [][Next]_vars

-----------------------------------------------------------------------------
(* Parsing and resolving: the rule file holds any text of at most MaxLines   *)
(* lines, the extension is activated and the editor moves between files     *)

InitResolve ==
    /\ rules = <<>>
    /\ lastCodeownersModified = 0
    /\ config \in {Config(a, <<>>) : a \in BOOLEAN}
    /\ currentMatchedRule = NoRule
    /\ statusBarItem = StatusBar("", <<>>, NoCommand, FALSE)
    /\ activated = FALSE
    /\ now = 1
    /\ workspaceOpen = TRUE
    /\ activeEditor \in Editors
    /\ \E t \in TextsUpTo(MaxLines) :
          fs = [f \in {RootCodeowners} |-> File("file", 1, t, 0)]
    /\ lastEvent = Event("init", "none", <<>>)
    /\ lastResolve = NoResolve
    /\ lastParsed = NeverParsed
    /\ lastLoad = NeverLoaded
    /\ matchErrors = {}
    /\ navigation = NoNavigation

NextResolve ==
    \/ Activate
    \/ \E e \in Editors : OnDidChangeActiveTextEditor(e)

SpecResolve == InitResolve /\ [][NextResolve]_vars

-----------------------------------------------------------------------------
(* Locating the rule file: every candidate is absent, a directory, a file   *)
(* that cannot be read, or a readable file; up to MaxPaths additional paths *)
(* are configured                                                           *)

MaxPaths == 2

LocateFiles == {RootCodeowners, GithubCodeowners, DocsCodeowners, OtherCodeowners}

FileKinds == {"absent", "directory", "unreadable", "file"}

RECURSIVE PathLists(_)
PathLists(n) ==
    IF n = 0 THEN {<<>>}
    ELSE LET shorter == PathLists(n - 1)
         IN  shorter \cup {Append(l, q) : l \in shorter,
                                          q \in {DocsCodeownersPath, OtherCodeownersPath}}

LocateConfigs == {Config(FALSE, l) : l \in PathLists(MaxPaths)}

InitLocate ==
    /\ rules = <<>>
    /\ lastCodeownersModified = 0
    /\ config \in LocateConfigs
    /\ currentMatchedRule = NoRule
    /\ statusBarItem = StatusBar("", <<>>, NoCommand, FALSE)
    /\ activated = FALSE
    /\ now = 1
    /\ workspaceOpen = TRUE
    /\ activeEditor = <<>>
    /\ \E kinds \in [LocateFiles -> FileKinds] :
          fs = [f \in LocateFiles |->
                  IF kinds[f] = "absent" THEN Absent
                  ELSE File(kinds[f], 1, LineStar, 0)]
    /\ lastEvent = Event("init", "none", <<>>)
    /\ lastResolve = NoResolve
    /\ lastParsed = NeverParsed
    /\ lastLoad = NeverLoaded
    /\ matchErrors = {}
    /\ navigation = NoNavigation

NextLocate ==
    \/ Activate
    \/ \E cfg \in LocateConfigs : OnDidChangeConfiguration(cfg)

SpecLocate == InitLocate /\ [][NextLocate]_vars

-----------------------------------------------------------------------------
(* Matching one pattern: the rule file is the one line "<pattern> @g", for  *)
(* every pattern of at most MaxPatternLen characters of PatternAlphabet,    *)
(* and the editor moves between files at several depths                     *)

MaxPatternLen == 3

PatternAlphabet == {"a", "x", "/", "*"}

RECURSIVE PatternsUpTo(_)
PatternsUpTo(n) ==
    IF n = 0 THEN {}
    ELSE LET shorter == PatternsUpTo(n - 1)
         IN  shorter \cup {<<c>> : c \in PatternAlphabet}
                     \cup {Append(q, c) : q \in shorter, c \in PatternAlphabet}

\* a file two directories down, and a file named like the directory a
FileDeep == <<"/", "w", "/", "a", "/", "a", "/", "x">>
FileNamedA == <<"/", "w", "/", "a">>

PatternEditors == {FileInA, FileAtTop, FileDeep, FileNamedA}

OwnerG == <<"@", "g">>

InitPattern ==
    /\ rules = <<>>
    /\ lastCodeownersModified = 0
    /\ config = Config(FALSE, <<>>)
    /\ currentMatchedRule = NoRule
    /\ statusBarItem = StatusBar("", <<>>, NoCommand, FALSE)
    /\ activated = FALSE
    /\ now = 1
    /\ workspaceOpen = TRUE
    /\ activeEditor \in PatternEditors
    /\ \E q \in PatternsUpTo(MaxPatternLen) :
          fs = [f \in {RootCodeowners} |-> File("file", 1, q \o <<" ">> \o OwnerG, 0)]
    /\ lastEvent = Event("init", "none", <<>>)
    /\ lastResolve = NoResolve
    /\ lastParsed = NeverParsed
    /\ lastLoad = NeverLoaded
    /\ matchErrors = {}
    /\ navigation = NoNavigation

NextPattern ==
    \/ Activate
    \/ \E e \in PatternEditors : OnDidChangeActiveTextEditor(e)

SpecPattern == InitPattern /\ [][NextPattern]_vars

-----------------------------------------------------------------------------
(* Saves: documents are saved in the editor (the rule file, a source file,  *)
(* and a document that is no rule file but has "codeowners" in its name)    *)
(* while time passes and another program rewrites the rule file.            *)

FileNotes == <<"/", "w", "/", "a", "/">> \o <<"c", "o", "d", "e", "o", "w", "n", "e", "r", "s">>
                 \o <<".", "m", "d">>

NextSave ==
    \/ Activate
    \/ \E t \in LifeTexts : OnDidSaveTextDocument(RootCodeowners, t)
    \/ OnDidSaveTextDocument(FileInA, <<>>)
    \/ OnDidSaveTextDocument(FileNotes, <<>>)
    \/ Tick
    \/ \E t \in LifeTexts : WriteFile(RootCodeowners, File("file", now, t, 0))

SpecSave == Init /\ [][NextSave]_vars

-----------------------------------------------------------------------------
(* Navigation: the command is invoked while the editor moves between files, *)
(* the rule file is saved with another text, and the rule file is removed.  *)

NavigationTexts == {TextGlobal, LineDeep, LineDeep \o <<"\n">> \o LineStar}

NavigationEditors == {FileInA, FileAtTop, RootCodeowners}

InitNavigate ==
    /\ rules = <<>>
    /\ lastCodeownersModified = 0
    /\ config = Config(FALSE, <<>>)
    /\ currentMatchedRule = NoRule
    /\ statusBarItem = StatusBar("", <<>>, NoCommand, FALSE)
    /\ activated = FALSE
    /\ now = 1
    /\ workspaceOpen = TRUE
    /\ activeEditor \in {FileInA, FileAtTop}
    /\ \E t \in NavigationTexts :
          fs = [f \in {RootCodeowners} |-> File("file", 1, t, 0)]
    /\ lastEvent = Event("init", "none", <<>>)
    /\ lastResolve = NoResolve
    /\ lastParsed = NeverParsed
    /\ lastLoad = NeverLoaded
    /\ matchErrors = {}
    /\ navigation = NoNavigation

NextNavigate ==
    \/ Activate
    \/ \E e \in NavigationEditors : OnDidChangeActiveTextEditor(e)
    \/ \E t \in NavigationTexts : OnDidSaveTextDocument(RootCodeowners, t)
    \/ Tick
    \/ WriteFile(RootCodeowners, Absent)
    \/ OpenCodeownersFile
    \/ OpenTextDocument
    \/ ShowTextDocument
    \/ NavigationTimer

SpecNavigate == InitNavigate /\ [][NextNavigate]_vars

-----------------------------------------------------------------------------
(* The size guard: the rule file is written with a text followed by enough  *)
(* white space to make it one character shorter than maxSize, exactly       *)
(* maxSize, or one character longer; the extension loads it at activation   *)
(* and at each change of the policy.                                        *)

SizedFiles(mtime) ==
    {File("file", mtime, t, (maxSize - Len(t) - 1) + d) :
        t \in {TextGlobal, LineDeep}, d \in {0, 1, 2}}

SizedConfigs == {Config(a, <<>>) : a \in BOOLEAN}

InitSize ==
    /\ rules = <<>>
    /\ lastCodeownersModified = 0
    /\ config \in SizedConfigs
    /\ currentMatchedRule = NoRule
    /\ statusBarItem = StatusBar("", <<>>, NoCommand, FALSE)
    /\ activated = FALSE
    /\ now = 1
    /\ workspaceOpen = TRUE
    /\ activeEditor = FileInA
    /\ \E file \in SizedFiles(1) : fs = [f \in {RootCodeowners} |-> file]
    /\ lastEvent = Event("init", "none", <<>>)
    /\ lastResolve = NoResolve
    /\ lastParsed = NeverParsed
    /\ lastLoad = NeverLoaded
    /\ matchErrors = {}
    /\ navigation = NoNavigation

NextSize ==
    \/ Activate
    \/ \E cfg \in SizedConfigs : OnDidChangeConfiguration(cfg)
    \/ Tick
    \/ \E file \in SizedFiles(now) : WriteFile(RootCodeowners, file)

SpecSize == InitSize /\ [][NextSize]_vars

-----------------------------------------------------------------------------
(* The freshness timestamp: loads of every ending, with the rule file       *)
(* rewritten, emptied, made too large and removed, and the root folder      *)
(* removed and created again.                                               *)

InitFresh ==
    /\ rules = <<>>
    /\ lastCodeownersModified = 0
    /\ config \in SizedConfigs
    /\ currentMatchedRule = NoRule
    /\ statusBarItem = StatusBar("", <<>>, NoCommand, FALSE)
    /\ activated = FALSE
    /\ now = 1
    /\ workspaceOpen = TRUE
    /\ activeEditor = FileInA
    /\ \E t \in LifeTexts :
          fs = [f \in {RootCodeowners} |-> File("file", 1, t, 0)]
    /\ lastEvent = Event("init", "none", <<>>)
    /\ lastResolve = NoResolve
    /\ lastParsed = NeverParsed
    /\ lastLoad = NeverLoaded
    /\ matchErrors = {}
    /\ navigation = NoNavigation

NextFresh ==
    \/ Activate
    \/ workspaceOpen /\ \E t \in LifeTexts : OnDidSaveTextDocument(RootCodeowners, t)
    \/ \E cfg \in SizedConfigs : OnDidChangeConfiguration(cfg)
    \/ Tick
    \/ workspaceOpen /\ \E t \in LifeTexts :
                            WriteFile(RootCodeowners, File("file", now, t, 0))
    \/ workspaceOpen /\ WriteFile(RootCodeowners, File("file", now, TextGlobal, maxSize))
    \/ workspaceOpen /\ WriteFile(RootCodeowners, Absent)
    \/ RemoveRoot
    \/ RestoreRoot

SpecFresh == InitFresh /\ [][NextFresh]_vars

-----------------------------------------------------------------------------
(* The freshness guard when statSync fails: another program replaces the    *)
(* rule file (removes it and writes it again) while a change of the policy  *)
(* is handled.                                                              *)

\* what the rule file can be at a moment of the handler: as it was, gone, or
\* written just now
FilesDuring ==
    {fs[RootCodeowners], Absent} \cup {File("file", now, t, 0) : t \in LifeTexts}

NextGuard ==
    \/ Activate
    \/ \E cfg \in SizedConfigs : \E atGuard, atRead \in FilesDuring :
          OnDidChangeConfigurationAcross(cfg, atGuard, atRead)
    \/ Tick
    \/ \E t \in LifeTexts : WriteFile(RootCodeowners, File("file", now, t, 0))

SpecGuard == InitFresh /\ [][NextGuard]_vars

-----------------------------------------------------------------------------
(* Errors of the glob library: the library raises on some patterns (one it  *)
(* cannot compile, or one longer than it accepts); which ones is fixed for  *)
(* a run. The rule file holds at most MaxLines of the lines of ErrorLines.  *)

\* the normalised patterns the library may raise on
ErrorPatterns == {<<"*">>, <<"a", "/", "*", "*">>}

ErrorLines == {LineStar, LineDirOwned, LineDirBare, LineDeep, LineAll}

RECURSIVE ErrorTextsUpTo(_)
ErrorTextsUpTo(n) ==
    IF n = 0 THEN {}
    ELSE LET shorter == ErrorTextsUpTo(n - 1)
         IN  shorter \cup ErrorLines
                     \cup {t \o <<"\n">> \o l : t \in shorter, l \in ErrorLines}

InitMatchError ==
    /\ rules = <<>>
    /\ lastCodeownersModified = 0
    /\ config \in {Config(a, <<>>) : a \in BOOLEAN}
    /\ currentMatchedRule = NoRule
    /\ statusBarItem = StatusBar("", <<>>, NoCommand, FALSE)
    /\ activated = FALSE
    /\ now = 1
    /\ workspaceOpen = TRUE
    /\ activeEditor \in {FileInA, FileAtTop}
    /\ \E t \in ErrorTextsUpTo(MaxLines) :
          fs = [f \in {RootCodeowners} |-> File("file", 1, t, 0)]
    /\ lastEvent = Event("init", "none", <<>>)
    /\ lastResolve = NoResolve
    /\ lastParsed = NeverParsed
    /\ lastLoad = NeverLoaded
    /\ matchErrors \in SUBSET ErrorPatterns
    /\ navigation = NoNavigation

NextMatchError ==
    \/ Activate
    \/ \E e \in {FileInA, FileAtTop, FileOutside} : OnDidChangeActiveTextEditor(e)

SpecMatchError == InitMatchError /\ [][NextMatchError]_vars

-----------------------------------------------------------------------------
(* Definitions the properties below share *)

\* the path of the last findOwners call relative to the workspace root
LastRelative == PathRelative(RootPath, lastResolve.path)

\* the last findOwners call was for a path inside the workspace: its relative
\* path is not empty and does not begin with the parent directory
LastInside ==
    /\ lastResolve.called
    /\ LastRelative # <<>>
    /\ Head(SplitRuns(LastRelative, {"/"})) # <<".", ".">>

\* the last findOwners call got as far as scanning the rules
LastScanned ==
    /\ lastResolve.called
    /\ LastRelative # <<>>
    /\ ~StartsWith(LastRelative, <<".", ".">>)

\* rule i of the cached rules matches the path of the last findOwners call
MatchesLast(i) == minimatch(LastRelative, normalizePattern(rules[i].pattern))

\* rule j is the last of the cached rules, in file order, that matches
IsLastMatch(j) ==
    /\ j \in 1..Len(rules)
    /\ MatchesLast(j)
    /\ \A k \in (j + 1)..Len(rules) : ~MatchesLast(k)

\* what findOwners returns for a matched rule
Returned(rule) == IF rule.owners = <<>> THEN <<Anyone>> ELSE rule.owners

\* how the caller of findOwners (updateStatusBar) tells the outcomes apart
Kind(owners) ==
    IF Len(owners) = 0 THEN "NoMatch"
    ELSE IF owners[1] = Anyone THEN "Unowned"
    ELSE "Owned"

\* the tokens of line i (1-based) of the root rule file as it is on disk
LineTokens(i) ==
    SelectSeq(SplitRuns(Split(fs[RootCodeowners].content, "\n")[i], WhiteSpace),
              LAMBDA token : token # <<>>)

LineCount == Len(Split(fs[RootCodeowners].content, "\n"))

\* line i is a valid pattern followed by no owner token
IsBareLine(i) ==
    /\ Len(LineTokens(i)) = 1
    /\ \A n \in 1..Len(LineTokens(i)[1]) : LineTokens(i)[1][n] \in PatternChars

\* the pattern of line i matches the path of the last findOwners call
LineMatchesLast(i) ==
    /\ Len(LineTokens(i)) >= 1
    /\ minimatch(LastRelative, normalizePattern(LineTokens(i)[1]))

\* the step is a handler that ran loadCodeowners() and located the file f
LoadStepOn(f) ==
    /\ lastEvent'.kind \in {"activate", "save", "config"}
    /\ lastEvent'.load # "none"
    /\ lastEvent'.file = f
    /\ f # <<>>

-----------------------------------------------------------------------------
(* C1. Last match wins: after findOwners is called for a path inside the    *)
(* workspace, if two cached rules both match the path, the one that matches *)
(* last in file order decides the result, whatever matched before it: the   *)
(* matched rule is that rule and the owners returned are its owners.        *)
LastMatchWins ==
    LastInside =>
        \A i \in 1..Len(rules) : \A j \in (i + 1)..Len(rules) :
            (MatchesLast(i) /\ IsLastMatch(j)) =>
                /\ currentMatchedRule = rules[j]
                /\ lastResolve.owners = Returned(rules[j])

\* The same for the paths findOwners scans the rules for (those whose relative
\* path does not start with two dots): there the last matching rule decides.
LastMatchWinsWhenScanned ==
    LastScanned =>
        \A i \in 1..Len(rules) : \A j \in (i + 1)..Len(rules) :
            (MatchesLast(i) /\ IsLastMatch(j)) =>
                /\ currentMatchedRule = rules[j]
                /\ lastResolve.owners = Returned(rules[j])

-----------------------------------------------------------------------------
(* C2. The freshness guard keeps the cache: a handler that runs             *)
(* loadCodeowners() while the located rule file's modification time is not  *)
(* newer than lastCodeownersModified leaves this.rules as it was.           *)
SkipKeepsRules ==
    [][\A f \in DOMAIN fs :
          (LoadStepOn(f) /\ fs'[f].mtime <= lastCodeownersModified)
              => rules' = rules]_vars

-----------------------------------------------------------------------------
(* C3. A read failure keeps the cache: a handler that runs loadCodeowners() *)
(* and fails to read the located rule file (here: the file is larger than   *)
(* maxSize) leaves this.rules as it was.                                    *)
ReadFailureKeepsRules ==
    [][\A f \in DOMAIN fs :
          (LoadStepOn(f) /\ fs'[f].mtime > lastCodeownersModified
                         /\ readCodeownersFile(fs', f) = "error")
              => rules' = rules]_vars

-----------------------------------------------------------------------------
(* C4. No modification is missed: when loadCodeowners() runs and the rule   *)
(* file parsed last has since got a modification time newer than the one it *)
(* had when it was parsed, and is readable and not empty, the load parses   *)
(* it: this.rules becomes the parse of its content.                         *)
NoModificationMissed ==
    [][\A f \in DOMAIN fs :
          (LoadStepOn(f) /\ f = lastParsed.file
                         /\ fs'[f].mtime > lastParsed.mtime
                         /\ readCodeownersFile(fs', f) = "content")
              => /\ lastEvent'.load = "parsed"
                 /\ rules' = parseCodeownersContent(<<>>, fs'[f].content, f,
                                                    config'.allowMissingOwners)]_vars

-----------------------------------------------------------------------------
(* C5. Reload on configuration change: right after onDidChangeConfiguration *)
(* has run while the located rule file is readable and not empty, this.rules *)
(* is the parse of that file under the new configuration.                   *)
ConfigChangeReloads ==
    (/\ lastEvent.kind = "config"
     /\ lastEvent.file # <<>>
     /\ readCodeownersFile(fs, lastEvent.file) = "content")
        => rules = parseCodeownersContent(<<>>, fs[lastEvent.file].content,
                                          lastEvent.file, config.allowMissingOwners)

-----------------------------------------------------------------------------
(* C6. Rule-file location priority: the file a load locates is the first of *)
(* <root>/CODEOWNERS, <root>/.github/CODEOWNERS and the configured          *)
(* additional paths, in that order, that is a readable regular file; it is  *)
(* none exactly when no candidate qualifies.                                *)
Candidates ==
    <<RootCodeowners, GithubCodeowners>>
        \o [i \in 1..Len(config.additionalCodeownersPaths) |->
                RootPath \o <<"/">> \o config.additionalCodeownersPaths[i]]

Qualifies(i) == fs[Candidates[i]].kind = "file"

LocatePriority ==
    lastEvent.kind \in {"activate", "config"} =>
        /\ lastEvent.file = <<>> <=> \A i \in 1..Len(Candidates) : ~Qualifies(i)
        /\ lastEvent.file # <<>> =>
              \E i \in 1..Len(Candidates) :
                  /\ Candidates[i] = lastEvent.file
                  /\ Qualifies(i)
                  /\ \A k \in 1..(i - 1) : ~Qualifies(k)

\* an additional path, configured second, is located: every candidate before
\* it fails to qualify, one of them because it is a directory, one because it
\* cannot be read, and a later candidate would qualify too
LocatePriorityWitness ==
    /\ lastEvent.kind \in {"activate", "config"}
    /\ Len(Candidates) = 4
    /\ lastEvent.file = Candidates[3]
    /\ fs[RootCodeowners].kind = "directory"
    /\ fs[GithubCodeowners].kind = "unreadable"
    /\ Candidates[4] # Candidates[3]
    /\ Qualifies(4)

-----------------------------------------------------------------------------
(* C7. Missing-owner policy toggle: once the rule file is loaded, a line    *)
(* that is a valid pattern with no owner token is a rule with empty owners  *)
(* when allowMissingOwners is on, and no rule when it is off; a path inside *)
(* the workspace whose last matching rule is such a rule resolves to        *)
(* Unowned, and with the policy off a path that only such lines match       *)
(* resolves to NoMatch.                                                     *)
MissingOwnerToggle ==
    activated =>
        /\ \A i \in 1..LineCount :
              IsBareLine(i) =>
                  IF config.allowMissingOwners
                  THEN \E k \in 1..Len(rules) :
                          rules[k] = Rule(LineTokens(i)[1], <<>>, i, RootCodeowners)
                  ELSE \A k \in 1..Len(rules) : rules[k].lineNumber # i
        /\ LastInside =>
              /\ (\E j \in 1..Len(rules) : IsLastMatch(j) /\ rules[j].owners = <<>>)
                    => Kind(lastResolve.owners) = "Unowned"
              /\ (/\ ~config.allowMissingOwners
                  /\ \A i \in 1..LineCount : LineMatchesLast(i) => IsBareLine(i))
                    => Kind(lastResolve.owners) = "NoMatch"

\* The same for the paths findOwners scans the rules for.
MissingOwnerToggleWhenScanned ==
    activated =>
        /\ \A i \in 1..LineCount :
              IsBareLine(i) =>
                  IF config.allowMissingOwners
                  THEN \E k \in 1..Len(rules) :
                          rules[k] = Rule(LineTokens(i)[1], <<>>, i, RootCodeowners)
                  ELSE \A k \in 1..Len(rules) : rules[k].lineNumber # i
        /\ LastScanned =>
              /\ (\E j \in 1..Len(rules) : IsLastMatch(j) /\ rules[j].owners = <<>>)
                    => Kind(lastResolve.owners) = "Unowned"
              /\ (/\ ~config.allowMissingOwners
                  /\ \A i \in 1..LineCount : LineMatchesLast(i) => IsBareLine(i))
                    => Kind(lastResolve.owners) = "NoMatch"

-----------------------------------------------------------------------------
(* C8. Resolution classification: for a path findOwners scans the rules     *)
(* for, the caller sees NoMatch exactly when no rule matched, Unowned       *)
(* exactly when the last matching rule has no owners, and otherwise Owned   *)
(* with exactly that rule's owners.                                         *)
ResolutionClassification ==
    LastScanned =>
        /\ Kind(lastResolve.owners) = "NoMatch"
              <=> \A j \in 1..Len(rules) : ~MatchesLast(j)
        /\ Kind(lastResolve.owners) = "Unowned"
              <=> \E j \in 1..Len(rules) : IsLastMatch(j) /\ rules[j].owners = <<>>
        /\ \A j \in 1..Len(rules) :
              (IsLastMatch(j) /\ rules[j].owners # <<>>)
                  => /\ Kind(lastResolve.owners) = "Owned"
                     /\ lastResolve.owners = rules[j].owners

-----------------------------------------------------------------------------
(* C9. The matched rule is absent for NoMatch: whenever the last findOwners *)
(* call returned NoMatch, currentMatchedRule is null; whenever it returned  *)
(* Owned or Unowned, currentMatchedRule is the rule whose owners it         *)
(* returned.                                                                *)
MatchedRuleAbsentForNoMatch ==
    lastResolve.called =>
        IF Kind(lastResolve.owners) = "NoMatch"
        THEN currentMatchedRule = NoRule
        ELSE /\ currentMatchedRule # NoRule
             /\ lastResolve.owners = Returned(currentMatchedRule)

-----------------------------------------------------------------------------
(* C10. Owner-less rules exist only under the policy: in every state, a     *)
(* cached rule with an empty owners list exists only if allowMissingOwners  *)
(* is on in the current configuration.                                      *)
OwnerlessOnlyUnderPolicy ==
    \A i \in 1..Len(rules) : rules[i].owners = <<>> => config.allowMissingOwners

\* a rule without owners is cached right after a configuration change
OwnerlessOnlyUnderPolicyWitness ==
    /\ lastEvent.kind = "config"
    /\ lastEvent.load = "parsed"
    /\ \E i \in 1..Len(rules) : rules[i].owners = <<>>

-----------------------------------------------------------------------------
(* C11. No torn or emptied rule set: whenever a handler resolves a path,    *)
(* the rule set it observes is the complete parse of the version of the     *)
(* rule file dealt with last, or of the version before it; it is never a    *)
(* set emptied in between.                                                  *)

\* the step is a handler that ran updateStatusBar() with an editor open
ResolveStep ==
    /\ lastEvent'.kind \in {"activate", "editor", "editor again"}
    /\ activeEditor' # <<>>

NoTornRuleSet ==
    [][ResolveStep => rules' \in {lastLoad'.previous, lastLoad'.latest}]_vars

-----------------------------------------------------------------------------
(* C12. Parsing preserves order and line numbers: after the rule file is    *)
(* parsed, the cached rules are in the order of their lines, and every      *)
(* rule's lineNumber is the 1-based index of its line in the file (blank,   *)
(* comment and rejected lines are counted), the line whose first token is   *)
(* the rule's pattern and whose other tokens are its owners.                *)
ParsePreservesOrder ==
    lastEvent.load = "parsed" =>
        /\ \A i \in 1..Len(rules) :
              /\ rules[i].lineNumber \in 1..LineCount
              /\ LineTokens(rules[i].lineNumber) = <<rules[i].pattern>> \o rules[i].owners
        /\ \A i, j \in 1..Len(rules) :
              i < j => rules[i].lineNumber < rules[j].lineNumber

\* a rule on line 2 is cached, line 1 having produced none
ParsePreservesOrderWitness ==
    /\ lastEvent.load = "parsed"
    /\ Len(rules) = 1
    /\ rules[1].lineNumber = 2

-----------------------------------------------------------------------------
(* C13. Owner validation drops the whole line: a line with at least one     *)
(* owner token, one of which has no '@', produces no rule at all, and no    *)
(* resolve returns an owner taken from such a line.                         *)

\* line i has an owner token (a token after the first) without '@'
HasBadOwner(i) ==
    \E k \in 2..Len(LineTokens(i)) :
        \A n \in 1..Len(LineTokens(i)[k]) : LineTokens(i)[k][n] # "@"

OwnerValidationDropsLine ==
    activated =>
        /\ \A i \in 1..LineCount :
              HasBadOwner(i) => \A r \in 1..Len(rules) : rules[r].lineNumber # i
        /\ \A k \in 1..Len(lastResolve.owners) :
              \E n \in 1..Len(lastResolve.owners[k]) : lastResolve.owners[k][n] = "@"

\* line 1 has a valid owner and an invalid one, and the only rule is line 2's
OwnerValidationDropsLineWitness ==
    /\ lastEvent.load = "parsed"
    /\ lastResolve.called
    /\ LineCount = 2
    /\ LineTokens(1) = <<<<"*">>, <<"@", "g">>, <<"h">>>>
    /\ Len(rules) = 1
    /\ rules[1].lineNumber = 2

-----------------------------------------------------------------------------
(* C14. Root-anchor normalization: for every pattern p that does not start  *)
(* with '/' and every path, matching against '/' + p gives the same result  *)
(* as matching against p; normalizePattern strips exactly one leading '/'.  *)

\* the only rule of the one-line rule file matched the path of the last
\* findOwners call
OnlyRuleMatched == lastResolve.owners = <<OwnerG>>

RootAnchorNormalization ==
    (LastScanned /\ Len(rules) = 1) =>
        LET p == rules[1].pattern IN
        \* the file holds p: '/' + p would match the same paths
        /\ ~StartsWith(p, <<"/">>) =>
              (OnlyRuleMatched <=> minimatch(LastRelative, normalizePattern(<<"/">> \o p)))
        \* the file holds '/' + q: q would match the same paths
        /\ (Len(p) > 1 /\ StartsWith(p, <<"/">>) /\ ~StartsWith(Tail(p), <<"/">>)) =>
              (OnlyRuleMatched <=> minimatch(LastRelative, normalizePattern(Tail(p))))
        \* one '/' is stripped, not more
        /\ StartsWith(p, <<"/">>) => StartsWith(normalizePattern(p), Tail(p))

\* the rule '/a' matched the file a at the top of the workspace
RootAnchorNormalizationWitness ==
    /\ Len(rules) = 1
    /\ rules[1].pattern = <<"/", "a">>
    /\ lastResolve.path = FileNamedA
    /\ OnlyRuleMatched

-----------------------------------------------------------------------------
(* C15. Directory shorthand: a pattern ending in '/' is matched as that     *)
(* directory prefix followed by '**', so it matches every file at any depth *)
(* beneath the directory and no file outside it.                            *)

RECURSIVE StripSlashes(_)
StripSlashes(p) == IF EndsWith(p, <<"/">>) THEN StripSlashes(SubSeq(p, 1, Len(p) - 1)) ELSE p

\* the directory a pattern ending in '/' names, relative to the workspace
\* root: the pattern without its root anchor and its trailing '/'; the
\* empty path is the root itself
DirectoryOf(p) == StripSlashes(IF StartsWith(p, <<"/">>) THEN Tail(p) ELSE p)

\* the path rel is a file at some depth beneath the directory dir
Beneath(rel, dir) ==
    \/ dir = <<>>
    \/ LET relParts == SplitRuns(rel, {"/"})
           dirParts == SplitRuns(dir, {"/"})
       IN  /\ Len(relParts) > Len(dirParts)
           /\ SubSeq(relParts, 1, Len(dirParts)) = dirParts

\* the one-line rule file holds a pattern ending in '/'
DirectoryRule ==
    /\ LastScanned
    /\ Len(rules) = 1
    /\ EndsWith(rules[1].pattern, <<"/">>)

\* as claimed, of every pattern ending in '/' whose directory is spelled out
DirectoryShorthand ==
    (DirectoryRule /\ ~HasMagic(rules[1].pattern)) =>
        (OnlyRuleMatched <=> Beneath(LastRelative, DirectoryOf(rules[1].pattern)))

\* amended: of the patterns that name a directory; a pattern of '/' alone
\* names none and matches no file
DirectoryShorthandNamed ==
    DirectoryRule =>
        LET dir == DirectoryOf(rules[1].pattern) IN
        IF dir = <<>> THEN ~OnlyRuleMatched
        ELSE /\ OnlyRuleMatched <=> minimatch(LastRelative, dir \o <<"/", "*", "*">>)
             /\ ~HasMagic(dir) => (OnlyRuleMatched <=> Beneath(LastRelative, dir))

\* the rule '/a/' matched a file two directories down
DirectoryShorthandNamedWitness ==
    /\ Len(rules) = 1
    /\ rules[1].pattern = <<"/", "a", "/">>
    /\ lastResolve.path = FileDeep
    /\ OnlyRuleMatched

-----------------------------------------------------------------------------
(* C16. Resolving is idempotent: when findOwners is called twice in a row   *)
(* with the same cached rules and the same path, the second call returns    *)
(* what the first returned and leaves currentMatchedRule (and the status    *)
(* bar) as the first left them.                                             *)
ResolveIdempotent ==
    [][lastEvent'.kind = "editor again" =>
          /\ lastResolve'.owners = lastResolve.owners
          /\ currentMatchedRule' = currentMatchedRule
          /\ statusBarItem' = statusBarItem]_vars

\* a second call in a row has returned the owners of a matched rule
ResolveIdempotentWitness ==
    /\ lastEvent.kind = "editor again"
    /\ lastResolve.owners # <<>>
    /\ currentMatchedRule # NoRule

-----------------------------------------------------------------------------
(* C17. Rules that do not match do not matter: for every rule set and path, *)
(* removing (hence also inserting or moving) the rules whose normalised     *)
(* pattern does not match the path, the matching rules keeping their order, *)
(* does not change the resolution: the owners returned, their kind, and the *)
(* matched rule.                                                            *)

\* the rules of ruleSeq whose normalised pattern matches the path filePath
MatchingRules(ruleSeq, filePath) ==
    SelectSeq(ruleSeq,
              LAMBDA rule : minimatch(PathRelative(RootPath, filePath),
                                      normalizePattern(rule.pattern)))

\* the step resolves a path the code scans the rules for
ScannedResolveStep ==
    /\ ResolveStep
    /\ lastResolve'.called
    /\ lastResolve'.path = activeEditor'
    /\ PathRelative(RootPath, activeEditor') # <<>>
    /\ ~StartsWith(PathRelative(RootPath, activeEditor'), <<".", ".">>)

NonMatchingRulesIrrelevant ==
    [][ScannedResolveStep =>
          LET without == findOwners(MatchingRules(rules', activeEditor'),
                                    currentMatchedRule, workspaceOpen, activeEditor')
          IN  /\ lastResolve'.owners = without.owners
              /\ currentMatchedRule' = without.currentMatchedRule]_vars

\* the owners and their kind, at least, do not depend on the other rules
NonMatchingRulesIrrelevantToOwners ==
    [][ScannedResolveStep =>
          lastResolve'.owners =
              findOwners(MatchingRules(rules', activeEditor'),
                         currentMatchedRule, workspaceOpen, activeEditor').owners]_vars

-----------------------------------------------------------------------------
(* C18. No rule file means NoMatch everywhere: when the last load found no  *)
(* candidate that qualifies, it ended on its plain return (not as a read    *)
(* failure), no rule is cached, and every resolve since has returned        *)
(* NoMatch and shown 'No owners found'.                                     *)
NoRuleFileMeansNoMatch ==
    ~lastLoad.located =>
        /\ rules = <<>>
        /\ lastEvent.load # "none" => lastEvent.load = "nofile"
        /\ (lastEvent.kind \in {"activate", "editor", "editor again"} /\ activeEditor # <<>>) =>
              /\ lastResolve.called
              /\ lastResolve.path = activeEditor
              /\ Kind(lastResolve.owners) = "NoMatch"
              /\ statusBarItem.text = "No owners found"
              /\ statusBarItem.command = NoCommand

\* the rule file was parsed, then removed; a load has found none and a file
\* inside the workspace has been resolved since
NoRuleFileMeansNoMatchWitness ==
    /\ ~lastLoad.located
    /\ lastParsed.file # <<>>
    /\ lastEvent.kind = "editor"
    /\ lastResolve.path = FileInA

-----------------------------------------------------------------------------
(* C19. The status bar shows the resolution: after updateStatusBar with an  *)
(* editor open, the status bar lists the owners and is clickable when the   *)
(* last rule matching the file has owners (Owned), shows 'No owners' and is *)
(* clickable when that rule has none (Unowned), and shows 'No owners found' *)
(* without a click command when no rule matches (NoMatch). Stated of the    *)
(* paths for which the code scans the rules.                                *)

\* what the status bar is to show for a file whose last matching rule is rule
ShownFor(rule) ==
    IF rule.owners = <<>>
    THEN StatusBar("No owners", <<>>, OpenCommand, TRUE)
    ELSE StatusBar("Owners: ", Join(rule.owners, <<",", " ">>), OpenCommand, TRUE)

StatusBarShowsResolution ==
    (LastScanned /\ lastResolve.path = activeEditor) =>
        /\ \A j \in 1..Len(rules) : IsLastMatch(j) => statusBarItem = ShownFor(rules[j])
        /\ (\A j \in 1..Len(rules) : ~MatchesLast(j)) =>
              statusBarItem = StatusBar("No owners found", <<>>, NoCommand, TRUE)
        /\ statusBarItem.command = OpenCommand <=> \E j \in 1..Len(rules) : MatchesLast(j)

\* the same, of rule files in which no rule's first owner is the marker '@anyone'
StatusBarShowsResolutionOfOthers ==
    (\A j \in 1..Len(rules) : rules[j].owners = <<>> \/ rules[j].owners[1] # Anyone) =>
        StatusBarShowsResolution

-----------------------------------------------------------------------------
(* C20. Real-time update after an edit of the rule file: when the rule file *)
(* is saved with changed content and parsed, the status bar and the matched *)
(* rule right after the save are those of resolving the active file against *)
(* the new rules, without a change of the active editor.                    *)
RealTimeUpdateOnSave ==
    [][(/\ lastEvent'.kind = "save"
        /\ lastEvent'.load = "parsed"
        /\ fs'[lastEvent'.file].content # fs[lastEvent'.file].content
        /\ activeEditor # <<>>)
       => LET fresh == findOwners(rules', currentMatchedRule, workspaceOpen, activeEditor)
          IN  /\ statusBarItem' = updateStatusBar(statusBarItem, activeEditor, fresh)
              /\ currentMatchedRule' = fresh.currentMatchedRule]_vars

-----------------------------------------------------------------------------
(* C21. A path outside the root yields NoMatch: when the relative path of   *)
(* the resolved file is empty or begins with the parent directory,          *)
(* findOwners returns NoMatch whatever the rules are, also when a rule's    *)
(* pattern would match the relative path, and the status bar shows 'No      *)
(* owners found'.                                                           *)

\* the last findOwners call was for the root itself or for a path that
\* leaves the workspace through the parent directory
LastOutside ==
    /\ lastResolve.called
    /\ \/ LastRelative = <<>>
       \/ Head(SplitRuns(LastRelative, {"/"})) = <<".", ".">>

OutsideYieldsNoMatch ==
    LastOutside =>
        /\ Kind(lastResolve.owners) = "NoMatch"
        /\ lastResolve.path = activeEditor =>
              statusBarItem = StatusBar("No owners found", <<>>, NoCommand, TRUE)

\* a file next to the workspace was resolved while a rule spells out its
\* relative path
OutsideYieldsNoMatchWitness ==
    /\ lastResolve.called
    /\ lastResolve.path = FileOutside
    /\ \E j \in 1..Len(rules) : minimatch(LastRelative, normalizePattern(rules[j].pattern))

-----------------------------------------------------------------------------
(* C22. A path inside the root is never rejected as outside: when the       *)
(* relative path of the resolved file is not empty and its first segment is *)
(* not exactly '..' (a segment such as '..c' included), the rules are       *)
(* scanned, so that a file some rule matches does not resolve to NoMatch.   *)
InsideNeverRejected ==
    (LastInside /\ \E j \in 1..Len(rules) : MatchesLast(j)) =>
        Kind(lastResolve.owners) # "NoMatch"

\* the same, of the inside paths that do not start with two dots
InsideNeverRejectedUnlessDotted ==
    (LastInside /\ ~StartsWith(LastRelative, <<".", ".">>)) => InsideNeverRejected

-----------------------------------------------------------------------------
(* C23. An error on one rule does not abort the scan: when the glob library *)
(* raises on a rule's pattern, that rule is skipped for the query and every *)
(* other rule is still evaluated: the resolution is the one of the last     *)
(* rule, among those the library does not raise on, that matches the path   *)
(* (NoMatch and no matched rule when there is none).                        *)

\* the glob library raises on rule i's pattern
RaisesOn(i) == normalizePattern(rules[i].pattern) \in matchErrors

\* the cached rules without those the library raises on, that match the path
\* of the last findOwners call
RemainingMatches ==
    SelectSeq(rules,
              LAMBDA rule : /\ normalizePattern(rule.pattern) \notin matchErrors
                            /\ minimatch(LastRelative, normalizePattern(rule.pattern)))

MatchErrorSkipsRule ==
    (LastScanned /\ Len(rules) > 0) =>
        IF RemainingMatches = <<>>
        THEN /\ lastResolve.owners = <<>>
             /\ currentMatchedRule = NoRule
        ELSE /\ currentMatchedRule = RemainingMatches[Len(RemainingMatches)]
             /\ lastResolve.owners = Returned(currentMatchedRule)

\* the library raised on line 1, and the rule of line 2 decided
MatchErrorSkipsRuleWitness ==
    /\ LastScanned
    /\ Len(rules) = 2
    /\ RaisesOn(1)
    /\ ~RaisesOn(2)
    /\ currentMatchedRule = rules[2]

-----------------------------------------------------------------------------
(* C24. Parsing is line-local: a line becomes a rule exactly when the file  *)
(* holding that line alone gives a rule under the same policy, whatever the *)
(* other lines are, a rejected line included; every line that is neither    *)
(* blank nor a comment counts once, as a valid rule or as an invalid line,  *)
(* and the blank lines and the comments count as neither.                   *)

RuleFileLines == Split(fs[RootCodeowners].content, "\n")

\* line i is empty after trimming, or starts with '#' after trimming
IsSkippedLine(i) ==
    \/ Trim(RuleFileLines[i]) = <<>>
    \/ Head(Trim(RuleFileLines[i])) = "#"

\* the rules the file made of line i alone gives
AloneRules(i) ==
    parseCodeownersContent(<<>>, RuleFileLines[i], RootCodeowners,
                           config.allowMissingOwners)

\* the cached rules that come from line i
RulesOfLine(i) == SelectSeq(rules, LAMBDA rule : rule.lineNumber = i)

ParsingIsLineLocal ==
    (activated /\ fs[RootCodeowners].content # <<>>) =>
        /\ \A i \in 1..LineCount :
              /\ Len(RulesOfLine(i)) = Len(AloneRules(i))
              /\ Len(RulesOfLine(i)) <= 1
              /\ Len(RulesOfLine(i)) = 1 =>
                    /\ RulesOfLine(i)[1].pattern = AloneRules(i)[1].pattern
                    /\ RulesOfLine(i)[1].owners = AloneRules(i)[1].owners
              /\ LET alone == parseCounters(RuleFileLines[i], config.allowMissingOwners)
                 IN  /\ alone.validRules = Len(RulesOfLine(i))
                     /\ alone.validRules + alone.invalidLines
                            = IF IsSkippedLine(i) THEN 0 ELSE 1
        /\ LET logged == parseCounters(fs[RootCodeowners].content,
                                       config.allowMissingOwners)
           IN  /\ logged.validRules = Len(rules)
               /\ logged.validRules + logged.invalidLines
                      = Cardinality({i \in 1..LineCount : ~IsSkippedLine(i)})

\* line 1 is rejected and line 2, after it, is the only rule
ParsingIsLineLocalWitness ==
    /\ activated
    /\ LineCount = 2
    /\ ~IsSkippedLine(1)
    /\ RulesOfLine(1) = <<>>
    /\ Len(rules) = 1
    /\ rules[1].lineNumber = 2
    /\ parseCounters(fs[RootCodeowners].content, config.allowMissingOwners)
           = Counters(1, 1)

-----------------------------------------------------------------------------
(* C25. Pattern allow-list: the pattern of every cached rule is non-empty   *)
(* and made of letters, digits and / * ? . - _ only, and a line whose first *)
(* token holds any other character gives no rule, with valid owners, with   *)
(* invalid owners or with none.                                             *)

AllowList ==
    {"a", "b", "c", "d", "e", "f", "g", "h", "i", "j", "k", "l", "m",
     "n", "o", "p", "q", "r", "s", "t", "u", "v", "w", "x", "y", "z",
     "A", "B", "C", "D", "E", "F", "G", "H", "I", "J", "K", "L", "M",
     "N", "O", "P", "Q", "R", "S", "T", "U", "V", "W", "X", "Y", "Z",
     "0", "1", "2", "3", "4", "5", "6", "7", "8", "9",
     "/", "*", "?", ".", "-", "_"}

\* line i is not skipped and its first token holds a character off the list
HasBadPattern(i) ==
    /\ ~IsSkippedLine(i)
    /\ \E n \in 1..Len(LineTokens(i)[1]) : LineTokens(i)[1][n] \notin AllowList

PatternAllowList ==
    activated =>
        /\ \A r \in 1..Len(rules) :
              /\ rules[r].pattern # <<>>
              /\ \A n \in 1..Len(rules[r].pattern) : rules[r].pattern[n] \in AllowList
              /\ rules[r].pattern = LineTokens(rules[r].lineNumber)[1]
        /\ \A i \in 1..LineCount :
              HasBadPattern(i) => RulesOfLine(i) = <<>>

\* a line with a '!' in its pattern and a valid owner precedes a rule
PatternAllowListWitness ==
    /\ activated
    /\ LineCount = 2
    /\ HasBadPattern(1)
    /\ Len(LineTokens(1)) = 2
    /\ ~HasBadOwner(1)
    /\ Len(rules) = 1

-----------------------------------------------------------------------------
(* C26. Oversized files are rejected, not truncated: a load that reads a    *)
(* rule file of more than 10 * 1024 * 1024 characters ends with an error    *)
(* and with no rule in this.rules; a load that reads a rule file of exactly *)
(* that many characters, or fewer, ends with the parse of its whole text.   *)

\* the step is a load that got as far as reading the rule file
ReadStep ==
    /\ LoadStepOn(RootCodeowners)
    /\ lastEvent'.load # "skipped"

OversizedRejected ==
    [][ReadStep =>
         IF FileLength(fs'[RootCodeowners]) > 10 * 1024 * 1024
         THEN /\ lastEvent'.load = "error"
              /\ rules' = <<>>
         ELSE /\ lastEvent'.load = "parsed"
              /\ rules' = parseCodeownersContent(<<>>, fs'[RootCodeowners].content,
                                                 RootCodeowners,
                                                 config'.allowMissingOwners)
              /\ Len(rules') >= 1]_vars

\* a file of exactly the limit has been parsed into its two rules
OversizedRejectedWitness ==
    /\ lastEvent.load = "parsed"
    /\ FileLength(fs[RootCodeowners]) = 10 * 1024 * 1024
    /\ Len(rules) = 2

\* a file one character over the limit has been read, and rejected
OversizedRejectedOver ==
    /\ lastEvent.load = "error"
    /\ FileLength(fs[RootCodeowners]) = 10 * 1024 * 1024 + 1
    /\ rules = <<>>

-----------------------------------------------------------------------------
(* C27. Rebuilt wholesale on every reparse: when a load completes a parse,  *)
(* this.rules is the parse, from nothing, of the text the load read: every  *)
(* rule names the file just read and a line of it whose first token is the  *)
(* rule's pattern, and no line gives two rules.                             *)

\* the step is a load that parsed the file f
ParseStepOn(f) ==
    /\ LoadStepOn(f)
    /\ lastEvent'.load = "parsed"

\* the tokens of line i of the text of f after the step
TokensAfter(f, i) ==
    SelectSeq(SplitRuns(Split(fs'[f].content, "\n")[i], WhiteSpace),
              LAMBDA token : token # <<>>)

RebuiltWholesale ==
    [][\A f \in RuleFiles :
         ParseStepOn(f) =>
            /\ rules' = parseCodeownersContent(<<>>, fs'[f].content, f,
                                               config'.allowMissingOwners)
            /\ \A r \in 1..Len(rules') :
                  /\ rules'[r].filePath = f
                  /\ rules'[r].lineNumber \in 1..Len(Split(fs'[f].content, "\n"))
                  /\ rules'[r].pattern = TokensAfter(f, rules'[r].lineNumber)[1]
                  /\ rules'[r].owners = Tail(TokensAfter(f, rules'[r].lineNumber))
            /\ \A r, q \in 1..Len(rules') :
                  r < q => rules'[r].lineNumber < rules'[q].lineNumber]_vars

\* a parse has replaced the rules of the parse before it by other rules
RebuiltWholesaleWitness ==
    /\ lastEvent.load = "parsed"
    /\ lastLoad.previous # <<>>
    /\ rules # <<>>
    /\ \A r \in 1..Len(rules) : \A q \in 1..Len(lastLoad.previous) :
          rules[r] # lastLoad.previous[q]

-----------------------------------------------------------------------------
(* C28. Saving an unrelated file does not touch the cache: the save of a    *)
(* document that is not the located rule file, one with "codeowners" in its *)
(* path included, leaves this.rules and this.lastCodeownersModified as they *)
(* were.                                                                    *)
UnrelatedSaveKeepsCache ==
    [][\A document \in {FileInA, FileNotes} :
          (/\ document # findCodeownersFile(fs, config)
           /\ OnDidSaveTextDocument(document, <<>>))
          => UNCHANGED <<rules, lastCodeownersModified>>]_vars

\* the same, of the documents without "codeowners" in their path
UnrelatedSaveKeepsCacheOtherwise ==
    [][\A document \in {FileInA, FileNotes} :
          (/\ document # findCodeownersFile(fs, config)
           /\ ~isCodeownersFile(document)
           /\ OnDidSaveTextDocument(document, <<>>))
          => UNCHANGED <<rules, lastCodeownersModified>>]_vars

-----------------------------------------------------------------------------
(* C29. Navigation uses the rule matched at click time: the selection the   *)
(* timer callback of openCodeownersFile makes is in the file, and at the    *)
(* line, of the rule that was this.currentMatchedRule when the command was  *)
(* invoked, whatever has become of this.currentMatchedRule since.           *)
NavigationUsesInvokedRule ==
    [][(navigation.pc = "waiting" /\ navigation'.pc = "idle") =>
          /\ navigation'.selection.file = navigation.invoked.filePath
          /\ navigation'.selection.line + 1 = navigation.invoked.lineNumber]_vars

\* the callback has selected the line of the rule matched at the invocation
\* after the editor change for the rule file made another rule the match
NavigationUsesInvokedRuleWitness ==
    /\ lastEvent.kind = "timer"
    /\ navigation.selection.file = navigation.invoked.filePath
    /\ navigation.selection.line + 1 = navigation.invoked.lineNumber
    /\ activeEditor = navigation.invoked.filePath
    /\ lastResolve.path = navigation.invoked.filePath
    /\ currentMatchedRule # navigation.invoked
    /\ currentMatchedRule # NoRule

-----------------------------------------------------------------------------
(* C30. Resolve does not modify the loader's state: a change of the active  *)
(* editor, which calls findOwners for the file shown, leaves this.rules and *)
(* this.lastCodeownersModified as they were, and each rule still holds its  *)
(* pattern as the rule file spells it, its owners and its line number, also *)
(* where normalisation changes the pattern.                                 *)
ResolveKeepsLoaderState ==
    [][(/\ lastEvent'.kind \in {"editor", "editor again"}
        /\ lastResolve'.called
        /\ lastResolve'.path = activeEditor')
       => /\ rules' = rules
          /\ lastCodeownersModified' = lastCodeownersModified
          /\ \A r \in 1..Len(rules') :
                /\ rules'[r].pattern = LineTokens(rules'[r].lineNumber)[1]
                /\ rules'[r].owners = Tail(LineTokens(rules'[r].lineNumber))]_vars

\* findOwners has matched a rule whose pattern normalisation changes, and the
\* rule still holds the pattern of the rule file
ResolveKeepsLoaderStateWitness ==
    /\ lastEvent.kind = "editor"
    /\ LastScanned
    /\ currentMatchedRule # NoRule
    /\ normalizePattern(currentMatchedRule.pattern) # currentMatchedRule.pattern
    /\ \E r \in 1..Len(rules) :
          /\ rules[r] = currentMatchedRule
          /\ rules[r].pattern = LineTokens(rules[r].lineNumber)[1]

-----------------------------------------------------------------------------
(* C31. The freshness timestamp advances only on a completed parse: a load  *)
(* that ends at the invalid workspace, at the missing rule file, at the     *)
(* freshness guard, at the failed read or at the empty file leaves          *)
(* this.lastCodeownersModified as it was, no step that is not a load        *)
(* changes it, and it never decreases.                                      *)

\* the step is a handler that ran loadCodeowners()
LoadStep ==
    /\ lastEvent'.kind \in {"activate", "save", "config"}
    /\ lastEvent'.load # "none"

TimestampOnlyOnParse ==
    [][/\ lastCodeownersModified' >= lastCodeownersModified
       /\ (LoadStep /\ lastEvent'.load \in {"invalid", "nofile", "skipped", "error", "empty"})
             => lastCodeownersModified' = lastCodeownersModified
       /\ lastCodeownersModified' # lastCodeownersModified
             => (LoadStep /\ lastEvent'.load = "parsed")]_vars

\* after a parse at time 1, a load at time 2 has ended at the invalid workspace
TimestampOnlyOnParseInvalid ==
    /\ lastEvent.load = "invalid"
    /\ lastCodeownersModified = 1
    /\ now = 2

\* after a parse at time 1, a load at time 2 has read the rewritten, empty file
TimestampOnlyOnParseWitness ==
    /\ lastEvent.load = "empty"
    /\ lastCodeownersModified = 1
    /\ now = 2
    /\ fs[RootCodeowners].mtime = 2

-----------------------------------------------------------------------------
(* C32. The freshness guard fails open: when statSync fails on the rule     *)
(* file that findCodeownersFile returned, shouldReloadCodeowners returns    *)
(* true whatever the recorded timestamp is, and the load goes on to the     *)
(* read: it is not skipped, and when the read gives text the text is parsed *)
(* and the timestamp recorded.                                              *)
GuardFailsOpen ==
    [][\A cfg \in SizedConfigs : \A atRead \in FilesDuring :
          (/\ findCodeownersFile(fs, cfg) = RootCodeowners
           /\ OnDidChangeConfigurationAcross(cfg, Absent, atRead))
          => /\ shouldReloadCodeowners([fs EXCEPT ![RootCodeowners] = Absent],
                                       RootCodeowners, lastCodeownersModified)
             /\ lastEvent'.load # "skipped"
             /\ lastEvent'.load \in {"parsed", "empty", "error"}
             /\ (atRead.kind = "file" /\ atRead.content # <<>>)
                   => /\ lastEvent'.load = "parsed"
                      /\ rules' = parseCodeownersContent(<<>>, atRead.content,
                                                         RootCodeowners,
                                                         cfg.allowMissingOwners)
                      /\ lastCodeownersModified' = now]_vars

\* a load has parsed, for the second time, a rule file whose modification
\* time is not after the recorded timestamp
GuardFailsOpenWitness ==
    /\ lastEvent.kind = "config"
    /\ lastEvent.load = "parsed"
    /\ lastLoad.previous # <<>>
    /\ fs[RootCodeowners].mtime = 1
    /\ now = 1

====
